---- MODULE Spec2Model ----
(***************************************************************************)
(* Model of the BLE advertising controller of the AirChainPay wallet      *)
(* (src/airchainpay-wallet/src/bluetooth/BLEAdvertisingEnhancements.ts):   *)
(* the configuration validator, the metrics store, the restart-attempt     *)
(* counters and the asynchronous start / stop / restart operations.        *)
(*                                                                         *)
(* With it, the payment flow of the QR pay screen                          *)
(* (src/airchainpay-wallet/app/qr-pay.tsx).                                *)
(*                                                                         *)
(* JavaScript runs the code between two awaits atomically, so every        *)
(* action below is one such run: from a call (or the resumption of an      *)
(* await) up to the next await or the return.                              *)
(***************************************************************************)
EXTENDS Integers, Sequences, FiniteSets, Bags, TLC

VARIABLES
    platformOS,         \* Platform.OS of the running process
    now,                \* Date.now()
    metrics,            \* this.metrics: Map<string, AdvertisingMetrics>
    restartAttempts,    \* this.restartAttempts: Map<string, number>
    tasks,              \* the async calls suspended at an await (a bag)
    ret,                \* what the last step returned to its caller, if anything
    driverCall,         \* the driver call the last step made, if any
    snapshot,           \* the Map last returned by getAllAdvertisingMetrics
    snapAlias,          \* sessions whose snapshot entry is the store's own object
    snapOrig,           \* history: the snapshot as it was when it was returned
    restartDriverCalls, \* history: driver starts made by restarts since the last stop/clear
    validated,          \* the last call of the validator: its config and its result
    queue,              \* the offline queue: its QueuedPayment entries in creation order
    flushes,            \* the flush calls suspended at `await submitFn(entry)`
    submitCall,         \* the submitFn call the last step made, if any
    stopStands,         \* history: sessions stopped with no start or restart called since
    screen,             \* the useState values of QRPayScreen, as last rendered
    alert,              \* the Alert the screen is showing, "none" if none
    sendPayments        \* the paymentService.sendPayment calls not yet settled

validatorVars == <<validated>>
queueVars == <<queue, flushes, submitCall>>
screenVars == <<screen, alert, sendPayments>>

vars == <<platformOS, now, metrics, restartAttempts, tasks, ret, driverCall,
          snapshot, snapAlias, snapOrig, restartDriverCalls, validatorVars,
          queueVars, stopStands, screenVars>>

-----------------------------------------------------------------------------
(* Bounds of the model *)

MaxTicks == 1
MaxSerialTicks == 2
MaxTasks == 2
MaxEntries == 2
MaxFlushes == 2
MaxSends == 2

Sessions == {"s1", "s2"}

-----------------------------------------------------------------------------
(* Optional values (a TypeScript `x?: T`): None is undefined, Some(v) is v *)

None == <<>>
Some(v) == <<v>>
IsSome(o) == o # None
Val(o) == o[1]

-----------------------------------------------------------------------------
(* Program constants *)

maxRestartAttempts == 3
restartDelay == 2000

\* One step of the clock, in milliseconds: the backoff delay is the only
\* duration the controller measures.
ClockStep == restartDelay

Android == "android"
Platforms == {"android", "ios"}

PlatformError == "BLE advertising is only supported on Android"
NoResultError == "Failed to start advertising - no result from startBroadcast"

-----------------------------------------------------------------------------
(* Configurations *)

HexDigits == {"0", "1", "2", "3", "4", "5", "6", "7", "8", "9",
              "a", "b", "c", "d", "e", "f", "A", "B", "C", "D", "E", "F"}

\* isValidUUID with the regular expression of line 377 without its i flag
isValidUUIDCaseSensitive(uuid) ==
    /\ Len(uuid) = 36
    /\ \A i \in 1..36 :
          IF i \in {9, 14, 19, 24} THEN uuid[i] = "-"
          ELSE uuid[i] \in {"0", "1", "2", "3", "4", "5", "6", "7", "8", "9",
                            "a", "b", "c", "d", "e", "f"}

\* /^[0-9a-f]{8}-[0-9a-f]{4}-[0-9a-f]{4}-[0-9a-f]{4}-[0-9a-f]{12}$/i on a
\* string given as the sequence of its characters
isValidUUID(uuid) ==
    /\ Len(uuid) = 36
    /\ \A i \in 1..36 :
          IF i \in {9, 14, 19, 24} THEN uuid[i] = "-" ELSE uuid[i] \in HexDigits

RECURSIVE join(_, _)
\* Array.prototype.join
join(strs, sep) ==
    IF Len(strs) = 0 THEN ""
    ELSE IF Len(strs) = 1 THEN strs[1]
    ELSE strs[1] \o sep \o join(Tail(strs), sep)

\* `if (c) errors.push(msg)`
PushIf(c, msg) == IF c THEN <<msg>> ELSE <<>>

\* validateAdvertisingConfig with `errors` kept by the object from call to
\* call (line 102 without the const): the errors of the last call stay in it
validateAdvertisingConfigSharedErrors(config) ==
    LET errors ==
            validated.errors
         \o PushIf(config.deviceName = "", "Device name is required")
         \o PushIf(Len(config.serviceUUID) = 0, "Service UUID is required")
         \o PushIf(~isValidUUID(config.serviceUUID), "Invalid service UUID format")
         \o PushIf(config.txPowerLevel < -30 \/ config.txPowerLevel > 10,
                   "TX power level must be between -30 and 10 dBm")
         \o PushIf(config.advertiseMode < 0 \/ config.advertiseMode > 2,
                   "Advertise mode must be 0, 1, or 2")
         \o PushIf(/\ IsSome(config.interval)
                   /\ Val(config.interval) # 0
                   /\ (Val(config.interval) < 20 \/ Val(config.interval) > 10240),
                   "Advertising interval must be between 20ms and 10240ms")
         \o (IF IsSome(config.payload)
             THEN    PushIf(Val(config.payload).walletAddress = "",
                            "Payload wallet address is required")
                  \o PushIf(\/ Val(config.payload).timestamp = None
                            \/ Val(Val(config.payload).timestamp) = 0,
                            "Payload timestamp is required")
             ELSE <<>>)
    IN  [valid |-> Len(errors) = 0, errors |-> errors]

\* lines 101-142
validateAdvertisingConfig(config) ==
    LET errors ==
            PushIf(config.deviceName = "", "Device name is required")
         \o PushIf(Len(config.serviceUUID) = 0, "Service UUID is required")
         \o PushIf(~isValidUUID(config.serviceUUID), "Invalid service UUID format")
         \o PushIf(config.txPowerLevel < -30 \/ config.txPowerLevel > 10,
                   "TX power level must be between -30 and 10 dBm")
         \o PushIf(config.advertiseMode < 0 \/ config.advertiseMode > 2,
                   "Advertise mode must be 0, 1, or 2")
         \o PushIf(/\ IsSome(config.interval)
                   /\ Val(config.interval) # 0
                   /\ (Val(config.interval) < 20 \/ Val(config.interval) > 10240),
                   "Advertising interval must be between 20ms and 10240ms")
         \o (IF IsSome(config.payload)
             THEN    PushIf(Val(config.payload).walletAddress = "",
                            "Payload wallet address is required")
                  \o PushIf(\/ Val(config.payload).timestamp = None
                            \/ Val(Val(config.payload).timestamp) = 0,
                            "Payload timestamp is required")
             ELSE <<>>)
    IN  [valid |-> Len(errors) = 0, errors |-> errors]

createPaymentAdvertisingConfig(deviceName, serviceUUID, payload) ==
    [deviceName |-> deviceName, serviceUUID |-> serviceUUID,
     txPowerLevel |-> -12, advertiseMode |-> 0,
     includeDeviceName |-> TRUE, includeTxPowerLevel |-> TRUE,
     connectable |-> TRUE, timeout |-> Some(60000), interval |-> Some(100),
     payload |-> Some(payload)]

createAdvertisingConfig(deviceName, serviceUUID) ==
    [deviceName |-> deviceName, serviceUUID |-> serviceUUID,
     txPowerLevel |-> -12, advertiseMode |-> 0,
     includeDeviceName |-> TRUE, includeTxPowerLevel |-> TRUE,
     connectable |-> TRUE, timeout |-> Some(0), interval |-> Some(100),
     payload |-> None]

-----------------------------------------------------------------------------
(* JSON.stringify, for the objects the controller serializes *)

JSONString(str) == "\"" \o str \o "\""

\* an object given as the sequence of its <<key, serialized value>> properties
JSONObject(props) ==
    "{" \o join([i \in 1..Len(props) |->
                    JSONString(props[i][1]) \o ":" \o props[i][2]], ",") \o "}"

\* a property whose value is undefined is left out
StringifyPayload(payload) ==
    JSONObject(   << <<"walletAddress", JSONString(payload.walletAddress)>> >>
               \o (IF IsSome(payload.timestamp)
                   THEN << <<"timestamp", ToString(Val(payload.timestamp))>> >>
                   ELSE <<>>)
               \o << <<"amount", JSONString(payload.amount)>> >>)

StringifyDescriptor(config, timestamp) ==
    JSONObject(<< <<"name", JSONString(config.deviceName)>>,
                  <<"serviceUUID", JSONString(join(config.serviceUUID, ""))>>,
                  <<"type", JSONString("AirChainPay")>>,
                  <<"version", JSONString("1.0.0")>>,
                  <<"timestamp", ToString(timestamp)>> >>)

\* AdvertisingMessage without the test of line 213: always the descriptor
AdvertisingMessageDescriptorOnly(config, timestamp) ==
    StringifyDescriptor(config, timestamp)

\* lines 213-225: the message handed to the driver
AdvertisingMessage(config, timestamp) ==
    IF IsSome(config.payload)
    THEN StringifyPayload(Val(config.payload))
    ELSE StringifyDescriptor(config, timestamp)

-----------------------------------------------------------------------------
(* Inputs of the model *)

ValidUUID ==
    << "1","2","3","e","4","5","6","7", "-", "e","8","9","b", "-",
       "1","2","d","3", "-", "a","4","5","6", "-",
       "4","2","6","6","1","4","1","7","4","0","0","0" >>

GoodPayload == [walletAddress |-> "0xA11ce", timestamp |-> Some(1700), amount |-> "5"]

PaymentConfig == createPaymentAdvertisingConfig("Alice-Phone", ValidUUID, GoodPayload)
BasicConfig == createAdvertisingConfig("Alice-Phone", ValidUUID)
\* an empty device name and a transmit power above the range
BadConfig == [createAdvertisingConfig("", ValidUUID) EXCEPT !.txPowerLevel = 11]

Configs == {PaymentConfig, BasicConfig, BadConfig}

\* what a call of the driver can do: resolve true or false, or reject
Resolve(v) == [kind |-> "resolve", value |-> v, message |-> ""]
Reject(msg) == [kind |-> "reject", value |-> FALSE, message |-> msg]
DriverOutcomes == {Resolve(TRUE), Resolve(FALSE), Reject("driver error")}

-----------------------------------------------------------------------------
(* Maps *)

Has(map, key) == key \in DOMAIN map
MapSet(map, key, value) ==
    [k \in DOMAIN map \cup {key} |-> IF k = key THEN value ELSE map[k]]
MapDelete(map, key) == [k \in DOMAIN map \ {key} |-> map[k]]
EmptyMap == [k \in {} |-> 0]

-----------------------------------------------------------------------------
(* Results, events and suspended calls *)

Result(success, error) == [success |-> success, error |-> error]

\* The return of a public method in the last step: the method (op) and its
\* sessionId and config arguments, the outcome of the driver call it had
\* awaited (None when it made none), what it returned, whether it threw
\* instead, and the line of the return statement; for a query, the value
\* it returned; for a start, whether a restart had called it (line 301).
NoRet ==
    [op |-> "none", sid |-> "", config |-> None, outcome |-> None,
     success |-> FALSE, error |-> None, threw |-> FALSE, line |-> 0,
     value |-> None, viaRestart |-> FALSE]
Returned(op, sessionId, config, outcome, result, line) ==
    [op |-> op, sid |-> sessionId, config |-> config, outcome |-> outcome,
     success |-> result.success, error |-> result.error, threw |-> FALSE,
     line |-> line, value |-> None, viaRestart |-> FALSE]

\* The driver call of the last step: the function, its argument, and the
\* call that made it (its session and config, whether it is a restart and
\* whether that restart was stopped or cleared during its backoff).
NoDriverCall ==
    [fn |-> "none", sid |-> "", config |-> None, payload |-> None, data |-> "",
     viaRestart |-> FALSE, cancel |-> "no"]

\* The submitFn call of the last step: the entry of the offline queue it was
\* made for and the flush call that made it; again is history: whether that
\* flush call was already running when the entry was last submitted.
NoSubmitCall == [entry |-> 0, flush |-> 0, again |-> FALSE]

\* A suspended call: the operation, its arguments, the await it is at (pc)
\* and the locals it reads after that await.  cancel is history: whether the
\* session was stopped or cleared while the call was in its backoff.
NewTask(op, sessionId, config, pc) ==
    [op |-> op, sid |-> sessionId, config |-> config, pc |-> pc, startTime |-> 0,
     wake |-> 0, result |-> None, cancel |-> "no"]

\* the call at `await advertiser.startBroadcast(...)` (line 228): of its
\* locals it still reads sessionId, startTime and config
AwaitDriver(task, startTime) ==
    [NewTask(task.op, task.sid, task.config, "awaitDriver")
        EXCEPT !.startTime = startTime]

\* the restart at `await this.startAdvertisingWithEnhancements(...)` (line
\* 301) once that start has returned: it still reads sessionId and
\* result.success
AfterStart(task, success) ==
    [NewTask(task.op, task.sid, None, "afterStart") EXCEPT !.result = Some(success)]

Suspended == BagCardinality(tasks)
Suspend(task) == tasks (+) SetToBag({task})
Finish(task) == tasks (-) SetToBag({task})
Resume(task, next) == Finish(task) (+) SetToBag({next})

RECURSIVE Copies(_, _)
\* the number of elements of bag B that are in the set S
Copies(S, B) ==
    IF S = {} THEN 0
    ELSE LET x == CHOOSE x \in S : TRUE IN B[x] + Copies(S \ {x}, B)

-----------------------------------------------------------------------------
(* The metrics store.  A Map holds references: getAllAdvertisingMetrics      *)
(* copies the Map, not the records, so a record of the snapshot is the       *)
(* store's own object (snapAlias) until the store replaces or deletes it.    *)

\* lines 391-398: the record recordMetrics builds; `error ? 1 : 0` is 0 for
\* an absent and for an empty message
NewMetrics(startTime, success, error, payloadTransmitted) ==
    [startTime |-> startTime, stopTime |-> None, duration |-> 0,
     success |-> success,
     errorCount |-> IF IsSome(error) /\ Val(error) # "" THEN 1 ELSE 0,
     restartCount |-> 0,
     payloadTransmitted |-> payloadTransmitted]

\* recordMetrics updating the record the store holds, where there is one:
\* stopTime, duration and restartCount stay
recordMetricsMerging(sessionId, startTime, success, error, payloadTransmitted) ==
    /\ metrics' = MapSet(metrics, sessionId,
          LET fresh == NewMetrics(startTime, success, error, payloadTransmitted)
          IN  IF Has(metrics, sessionId)
              THEN [fresh EXCEPT !.stopTime = metrics[sessionId].stopTime,
                                 !.duration = metrics[sessionId].duration,
                                 !.restartCount = metrics[sessionId].restartCount]
              ELSE fresh)
    /\ snapAlias' = snapAlias \ {sessionId}
    /\ UNCHANGED snapshot

\* recordMetrics with the restartCount of the record it replaces carried
\* over into the fresh record
recordMetricsKeepingRestarts(sessionId, startTime, success, error, payloadTransmitted) ==
    /\ metrics' = MapSet(metrics, sessionId,
          LET fresh == NewMetrics(startTime, success, error, payloadTransmitted)
          IN  IF Has(metrics, sessionId)
              THEN [fresh EXCEPT !.restartCount = metrics[sessionId].restartCount]
              ELSE fresh)
    /\ snapAlias' = snapAlias \ {sessionId}
    /\ UNCHANGED snapshot

\* this.metrics.set(sessionId, metrics) with a fresh record
recordMetrics(sessionId, startTime, success, error, payloadTransmitted) ==
    /\ metrics' = MapSet(metrics, sessionId,
                         NewMetrics(startTime, success, error, payloadTransmitted))
    /\ snapAlias' = snapAlias \ {sessionId}
    /\ UNCHANGED snapshot

\* an assignment to fields of the record the store holds for sessionId
MutateRecord(sessionId, record) ==
    /\ metrics' = MapSet(metrics, sessionId, record)
    /\ snapshot' = IF sessionId \in snapAlias
                   THEN MapSet(snapshot, sessionId, record)
                   ELSE snapshot
    /\ UNCHANGED snapAlias

StoreUnchanged == UNCHANGED <<metrics, snapshot, snapAlias>>

\* MarkStopped without line 263: the duration stays what recordMetrics wrote
MarkStoppedKeepsDuration(record, stopTime) ==
    [record EXCEPT !.stopTime = Some(stopTime)]

\* lines 262-263
MarkStopped(record, stopTime) ==
    [record EXCEPT !.stopTime = Some(stopTime),
                   !.duration = stopTime - record.startTime]

-----------------------------------------------------------------------------
(* startAdvertisingWithEnhancements *)

\* StartGate without the validation of lines 199-204
StartGateNoValidation(config) ==
    IF platformOS # Android
    THEN Some([error |-> PlatformError, line |-> 210])
    ELSE None

\* StartGate without the platform check of lines 207-211
StartGateNoPlatformCheck(config) ==
    LET validation == validateAdvertisingConfig(config)
    IN  IF ~validation.valid
        THEN Some([error |-> "Invalid advertising configuration: "
                             \o join(validation.errors, ", "),
                   line |-> 203])
        ELSE None

\* lines 198-211: the checks made before the driver is called; the error
\* to return and the line that returns it, or None to go on
StartGate(config) ==
    LET validation == validateAdvertisingConfig(config)
    IN  IF ~validation.valid
        THEN Some([error |-> "Invalid advertising configuration: "
                             \o join(validation.errors, ", "),
                   line |-> 203])
        ELSE IF platformOS # Android
        THEN Some([error |-> PlatformError, line |-> 210])
        ELSE None

\* StartSettle without the catch of lines 240-246: a rejection propagates
StartSettleNoCatch(outcome, config) ==
    IF outcome.kind = "resolve" /\ outcome.value
    THEN [result |-> Result(TRUE, None), threw |-> FALSE, line |-> 233,
          success |-> TRUE, error |-> None,
          payloadTransmitted |-> Some(IsSome(config.payload))]
    ELSE IF outcome.kind = "resolve"
    THEN [result |-> Result(FALSE, Some(NoResultError)), threw |-> FALSE,
          line |-> 237, success |-> FALSE, error |-> Some(NoResultError),
          payloadTransmitted |-> None]
    ELSE [result |-> Result(FALSE, None), threw |-> TRUE, line |-> 228,
          success |-> FALSE, error |-> None, payloadTransmitted |-> None]

\* StartSettle with line 231 written as line 169 is: payloadTransmitted = true
StartSettleAlwaysTransmitted(outcome, config) ==
    IF outcome.kind = "resolve" /\ outcome.value
    THEN [result |-> Result(TRUE, None), threw |-> FALSE, line |-> 233,
          success |-> TRUE, error |-> None, payloadTransmitted |-> Some(TRUE)]
    ELSE LET error == IF outcome.kind = "resolve"
                      THEN NoResultError ELSE outcome.message
         IN  [result |-> Result(FALSE, Some(error)), threw |-> FALSE,
              line |-> IF outcome.kind = "resolve" THEN 237 ELSE 245,
              success |-> FALSE, error |-> Some(error),
              payloadTransmitted |-> None]

\* lines 228-246: what the call makes of the driver's outcome: the result it
\* returns and the arguments of its recordMetrics call
StartSettle(outcome, config) ==
    IF outcome.kind = "resolve" /\ outcome.value
    THEN [result |-> Result(TRUE, None), threw |-> FALSE, line |-> 233,
          success |-> TRUE, error |-> None,
          payloadTransmitted |-> Some(IsSome(config.payload))]
    ELSE LET error == IF outcome.kind = "resolve"
                      THEN NoResultError ELSE outcome.message
         IN  [result |-> Result(FALSE, Some(error)), threw |-> FALSE,
              line |-> IF outcome.kind = "resolve" THEN 237 ELSE 245,
              success |-> FALSE, error |-> Some(error),
              payloadTransmitted |-> None]

\* the history of driver starts made by restarts: a restart that was in its
\* backoff when the session was stopped or cleared belongs to the past
CountRestartCall(task) ==
    restartDriverCalls' =
        IF task.op = "restart" /\ task.cancel = "no"
        THEN [restartDriverCalls EXCEPT ![task.sid] = @ + 1]
        ELSE restartDriverCalls

\* lines 195-228, up to the await of the driver, run by `task` (a start, or
\* the start a restart makes); `others` are the other suspended calls
StartSync(task, others) ==
    LET gate == StartGate(task.config)
    IN  IF IsSome(gate)
        THEN /\ recordMetrics(task.sid, now, FALSE, Some(Val(gate).error), None)
             /\ ret' = [Returned("start", task.sid, Some(task.config), None,
                                 Result(FALSE, Some(Val(gate).error)), Val(gate).line)
                           EXCEPT !.viaRestart = task.op = "restart"]
             /\ driverCall' = NoDriverCall
             /\ UNCHANGED restartDriverCalls
             /\ tasks' = IF task.op = "start"
                         THEN others
                         ELSE others (+) SetToBag({AfterStart(task, FALSE)})
        ELSE /\ driverCall' = [fn |-> "startBroadcast", sid |-> task.sid,
                               config |-> Some(task.config),
                               payload |-> task.config.payload,
                               data |-> AdvertisingMessage(task.config, now),
                               viaRestart |-> task.op = "restart",
                               cancel |-> task.cancel]
             /\ CountRestartCall(task)
             /\ tasks' = others (+) SetToBag({AwaitDriver(task, now)})
             /\ ret' = NoRet
             /\ StoreUnchanged

\* Start behind a backoff that blocks (a sleep that holds the thread): no
\* start runs while a restart is waiting
StartBehindBackoff(sessionId, config) ==
    /\ \A task \in DOMAIN tasks : task.pc # "backoff"
    /\ Suspended < MaxTasks
    /\ StartSync(NewTask("start", sessionId, config, "called"), tasks)
    /\ stopStands' = stopStands \ {sessionId}
    /\ UNCHANGED <<platformOS, now, restartAttempts, snapOrig, validatorVars, queueVars, screenVars>>

\* a caller invokes startAdvertisingWithEnhancements(advertiser, config, sessionId)
Start(sessionId, config) ==
    /\ Suspended < MaxTasks
    /\ StartSync(NewTask("start", sessionId, config, "called"), tasks)
    /\ stopStands' = stopStands \ {sessionId}
    /\ UNCHANGED <<platformOS, now, restartAttempts, snapOrig, validatorVars, queueVars, screenVars>>

\* StartDriverReturn with a this.restartAttempts.delete(sessionId) after a
\* start that succeeded
StartDriverReturnRestoresBudget(task, outcome) ==
    /\ BagIn(task, tasks)
    /\ task.op \in {"start", "restart"}
    /\ task.pc = "awaitDriver"
    /\ LET settled == StartSettle(outcome, task.config)
       IN  /\ IF settled.threw
              THEN StoreUnchanged
              ELSE recordMetrics(task.sid, task.startTime, settled.success,
                                 settled.error, settled.payloadTransmitted)
           /\ ret' = [Returned("start", task.sid, Some(task.config), Some(outcome),
                               settled.result, settled.line)
                         EXCEPT !.threw = settled.threw,
                                !.viaRestart = task.op = "restart"]
           /\ tasks' = IF task.op = "start"
                       THEN Finish(task)
                       ELSE Resume(task, AfterStart(task, settled.result.success))
           /\ restartAttempts' = IF settled.success
                                 THEN MapDelete(restartAttempts, task.sid)
                                 ELSE restartAttempts
    /\ driverCall' = NoDriverCall
    /\ UNCHANGED <<platformOS, stopStands, now, snapOrig, restartDriverCalls, validatorVars, queueVars, screenVars>>

\* `await advertiser.startBroadcast(...)` settles: lines 230-246
StartDriverReturn(task, outcome) ==
    /\ BagIn(task, tasks)
    /\ task.op \in {"start", "restart"}
    /\ task.pc = "awaitDriver"
    /\ LET settled == StartSettle(outcome, task.config)
       IN  /\ IF settled.threw
              THEN StoreUnchanged
              ELSE recordMetrics(task.sid, task.startTime, settled.success,
                                 settled.error, settled.payloadTransmitted)
           /\ ret' = [Returned("start", task.sid, Some(task.config), Some(outcome),
                               settled.result, settled.line)
                         EXCEPT !.threw = settled.threw,
                                !.viaRestart = task.op = "restart"]
           /\ tasks' = IF task.op = "start"
                       THEN Finish(task)
                       ELSE Resume(task, AfterStart(task, settled.result.success))
    /\ driverCall' = NoDriverCall
    /\ UNCHANGED <<platformOS, stopStands, now, restartAttempts, snapOrig, restartDriverCalls, validatorVars, queueVars, screenVars>>

-----------------------------------------------------------------------------
(* startPaymentAdvertising *)

\* PaymentSettle with the payload flag of line 169 passed to every
\* recordMetrics call, those of lines 174 and 180 too
PaymentSettleAlwaysTransmitted(outcome) ==
    IF outcome.kind = "resolve" /\ outcome.value
    THEN [result |-> Result(TRUE, None), line |-> 171,
          payloadTransmitted |-> Some(TRUE)]
    ELSE [result |-> Result(FALSE, Some(IF outcome.kind = "resolve"
                                        THEN NoResultError ELSE outcome.message)),
          line |-> IF outcome.kind = "resolve" THEN 175 ELSE 183,
          payloadTransmitted |-> Some(TRUE)]

\* lines 166-184: what the call makes of the driver's outcome: the result it
\* returns and the arguments of its recordMetrics call
PaymentSettle(outcome) ==
    IF outcome.kind = "resolve" /\ outcome.value
    THEN [result |-> Result(TRUE, None), line |-> 171,
          payloadTransmitted |-> Some(TRUE)]
    ELSE [result |-> Result(FALSE, Some(IF outcome.kind = "resolve"
                                        THEN NoResultError ELSE outcome.message)),
          line |-> IF outcome.kind = "resolve" THEN 175 ELSE 183,
          payloadTransmitted |-> None]

\* a caller invokes startPaymentAdvertising(advertiser, payload, sessionId):
\* lines 151-166, up to the await of the driver
startPaymentAdvertising(sessionId, payload) ==
    /\ Suspended < MaxTasks
    /\ IF platformOS # Android
       THEN /\ recordMetrics(sessionId, now, FALSE, Some(PlatformError), None)
            /\ ret' = Returned("startPayment", sessionId, None, None,
                               Result(FALSE, Some(PlatformError)), 159)
            /\ driverCall' = NoDriverCall
            /\ UNCHANGED tasks
       ELSE /\ driverCall' = [NoDriverCall EXCEPT
                                 !.fn = "startBroadcast", !.sid = sessionId,
                                 !.payload = Some(payload),
                                 !.data = StringifyPayload(payload)]
            /\ tasks' = Suspend(AwaitDriver(
                             NewTask("startPayment", sessionId, None, "called"), now))
            /\ ret' = NoRet
            /\ StoreUnchanged
    /\ stopStands' = stopStands \ {sessionId}
    /\ UNCHANGED <<platformOS, now, restartAttempts, snapOrig, restartDriverCalls, validatorVars, queueVars, screenVars>>

\* `await advertiser.startBroadcast(advertisingMessage)` (line 166) settles:
\* lines 168-184
PaymentDriverReturn(task, outcome) ==
    /\ BagIn(task, tasks)
    /\ task.op = "startPayment"
    /\ LET settled == PaymentSettle(outcome)
       IN  /\ recordMetrics(task.sid, task.startTime, settled.result.success,
                            settled.result.error, settled.payloadTransmitted)
           /\ ret' = Returned("startPayment", task.sid, None, Some(outcome),
                              settled.result, settled.line)
    /\ tasks' = Finish(task)
    /\ driverCall' = NoDriverCall
    /\ UNCHANGED <<platformOS, stopStands, now, restartAttempts, snapOrig, restartDriverCalls, validatorVars, queueVars, screenVars>>

-----------------------------------------------------------------------------
(* stopAdvertisingWithEnhancements *)

\* a stop or a clear reaches the restarts of the session that are suspended
\* in their backoff: history only, the code keeps no such mark
MarkCancelled(task, sessionIds, how) ==
    IF task.op = "restart" /\ task.pc = "backoff" /\ task.sid \in sessionIds
       /\ task.cancel # "stop"
    THEN [task EXCEPT !.cancel = how]
    ELSE task

\* the bag B with every call marked
CancelAll(B, sessionIds, how) ==
    [marked \in {MarkCancelled(task, sessionIds, how) : task \in DOMAIN B} |->
        Copies({task \in DOMAIN B : MarkCancelled(task, sessionIds, how) = marked}, B)]

\* a caller invokes stopAdvertisingWithEnhancements(advertiser, sessionId):
\* line 257, up to the await
Stop(sessionId) ==
    /\ Suspended < MaxTasks
    /\ tasks' = Suspend(NewTask("stop", sessionId, None, "awaitDriver"))
    /\ driverCall' = [NoDriverCall EXCEPT !.fn = "stopBroadcast", !.sid = sessionId]
    /\ ret' = NoRet
    /\ StoreUnchanged
    /\ UNCHANGED <<platformOS, stopStands, now, restartAttempts, snapOrig, restartDriverCalls, validatorVars, queueVars, screenVars>>

\* lines 256-276: what the call makes of the driver's outcome: the result it
\* returns, and whether it runs lines 259-267 (the result of stopBroadcast
\* is not looked at; only a rejection leaves the try block)
StopSettle(outcome) ==
    IF outcome.kind = "reject"
    THEN [result |-> Result(FALSE, Some(outcome.message)), cleanup |-> FALSE,
          line |-> 275]
    ELSE [result |-> Result(TRUE, None), cleanup |-> TRUE, line |-> 270]

\* StopDriverReturn with this.restartAttempts.clear() for the delete of line 266
StopDriverReturnClearsCounters(task, outcome) ==
    /\ BagIn(task, tasks)
    /\ task.op = "stop"
    /\ LET sessionId == task.sid
           settled == StopSettle(outcome)
       IN  /\ ret' = Returned("stop", sessionId, None, Some(outcome),
                              settled.result, settled.line)
           /\ IF settled.cleanup
              THEN /\ IF Has(metrics, sessionId)
                      THEN /\ MutateRecord(sessionId, MarkStopped(metrics[sessionId], now))
                           /\ stopStands' = stopStands \cup {sessionId}
                      ELSE /\ StoreUnchanged
                           /\ UNCHANGED stopStands
                   /\ restartAttempts' = EmptyMap
                   /\ restartDriverCalls' = [restartDriverCalls EXCEPT ![sessionId] = 0]
                   /\ tasks' = CancelAll(Finish(task), {sessionId}, "stop")
              ELSE /\ StoreUnchanged
                   /\ tasks' = Finish(task)
                   /\ UNCHANGED <<restartAttempts, restartDriverCalls, stopStands>>
    /\ driverCall' = NoDriverCall
    /\ UNCHANGED <<platformOS, now, snapOrig, validatorVars, queueVars, screenVars>>

\* `await advertiser.stopBroadcast()` settles
StopDriverReturn(task, outcome) ==
    /\ BagIn(task, tasks)
    /\ task.op = "stop"
    /\ LET sessionId == task.sid
           settled == StopSettle(outcome)
       IN  /\ ret' = Returned("stop", sessionId, None, Some(outcome),
                              settled.result, settled.line)
           /\ IF settled.cleanup
              THEN /\ IF Has(metrics, sessionId)
                      THEN /\ MutateRecord(sessionId, MarkStopped(metrics[sessionId], now))
                           /\ stopStands' = stopStands \cup {sessionId}
                      ELSE /\ StoreUnchanged
                           /\ UNCHANGED stopStands
                   /\ restartAttempts' = MapDelete(restartAttempts, sessionId)
                   /\ restartDriverCalls' = [restartDriverCalls EXCEPT ![sessionId] = 0]
                   /\ tasks' = CancelAll(Finish(task), {sessionId}, "stop")
              ELSE /\ StoreUnchanged
                   /\ tasks' = Finish(task)
                   /\ UNCHANGED <<restartAttempts, restartDriverCalls, stopStands>>
    /\ driverCall' = NoDriverCall
    /\ UNCHANGED <<platformOS, now, snapOrig, validatorVars, queueVars, screenVars>>

-----------------------------------------------------------------------------
(* restartAdvertisingIfNeeded *)

\* line 287: this.restartAttempts.get(sessionId) || 0
Attempts(sessionId) ==
    IF Has(restartAttempts, sessionId) THEN restartAttempts[sessionId] ELSE 0

\* line 289 with > for >=
BudgetExhaustedOffByOne(attempts) == attempts > maxRestartAttempts

\* line 289
BudgetExhausted(attempts) == attempts >= maxRestartAttempts

\* Restart with a this.restartAttempts.delete(sessionId) before the return
\* of line 291
RestartDeletesOnExhaustion(sessionId, config) ==
    /\ IF BudgetExhausted(Attempts(sessionId))
       THEN /\ ret' = Returned("restart", sessionId, None, None,
                               Result(FALSE, None), 291)
            /\ restartAttempts' = MapDelete(restartAttempts, sessionId)
            /\ UNCHANGED tasks
       ELSE /\ Suspended < MaxTasks
            /\ restartAttempts' =
                  MapSet(restartAttempts, sessionId, Attempts(sessionId) + 1)
            /\ tasks' = Suspend([NewTask("restart", sessionId, config, "backoff")
                                   EXCEPT !.wake = now + restartDelay])
            /\ ret' = NoRet
    /\ driverCall' = NoDriverCall
    /\ StoreUnchanged
    /\ stopStands' = stopStands \ {sessionId}
    /\ UNCHANGED <<platformOS, now, snapOrig, restartDriverCalls, validatorVars, queueVars, screenVars>>

\* a caller invokes restartAdvertisingIfNeeded(advertiser, config, sessionId):
\* lines 287-297, up to the await of the timer
Restart(sessionId, config) ==
    /\ IF BudgetExhausted(Attempts(sessionId))
       THEN /\ ret' = Returned("restart", sessionId, None, None,
                               Result(FALSE, None), 291)
            /\ UNCHANGED <<restartAttempts, tasks>>
       ELSE /\ Suspended < MaxTasks
            /\ restartAttempts' =
                  MapSet(restartAttempts, sessionId, Attempts(sessionId) + 1)
            /\ tasks' = Suspend([NewTask("restart", sessionId, config, "backoff")
                                   EXCEPT !.wake = now + restartDelay])
            /\ ret' = NoRet
    /\ driverCall' = NoDriverCall
    /\ StoreUnchanged
    /\ stopStands' = stopStands \ {sessionId}
    /\ UNCHANGED <<platformOS, now, snapOrig, restartDriverCalls, validatorVars, queueVars, screenVars>>

\* RestartTimer without the await of line 297: the call goes on to line 301
\* whatever the time is
RestartTimerAtOnce(task) ==
    /\ BagIn(task, tasks)
    /\ task.op = "restart"
    /\ task.pc = "backoff"
    /\ StartSync(task, Finish(task))
    /\ UNCHANGED <<platformOS, stopStands, now, restartAttempts, snapOrig, validatorVars, queueVars, screenVars>>

\* the timer of line 297 fires and the call goes on to line 301, into
\* startAdvertisingWithEnhancements
RestartTimer(task) ==
    /\ BagIn(task, tasks)
    /\ task.op = "restart"
    /\ task.pc = "backoff"
    /\ now >= task.wake
    /\ StartSync(task, Finish(task))
    /\ UNCHANGED <<platformOS, stopStands, now, restartAttempts, snapOrig, validatorVars, queueVars, screenVars>>

\* RestartFinish without the test of line 303: restartCount is incremented
\* whatever the start returned
RestartFinishAlwaysCounts(task) ==
    /\ BagIn(task, tasks)
    /\ task.op = "restart"
    /\ task.pc = "afterStart"
    /\ LET sessionId == task.sid
           success == Val(task.result)
       IN  /\ IF Has(metrics, sessionId)
              THEN MutateRecord(sessionId,
                       [metrics[sessionId] EXCEPT !.restartCount = @ + 1])
              ELSE StoreUnchanged
           /\ ret' = Returned("restart", sessionId, None, None,
                              Result(success, None), 310)
    /\ tasks' = Finish(task)
    /\ driverCall' = NoDriverCall
    /\ UNCHANGED <<platformOS, stopStands, now, restartAttempts, snapOrig, restartDriverCalls, validatorVars, queueVars, screenVars>>

\* the start of line 301 has returned: lines 303-310
RestartFinish(task) ==
    /\ BagIn(task, tasks)
    /\ task.op = "restart"
    /\ task.pc = "afterStart"
    /\ LET sessionId == task.sid
           success == Val(task.result)
       IN  /\ IF success /\ Has(metrics, sessionId)
              THEN MutateRecord(sessionId,
                       [metrics[sessionId] EXCEPT !.restartCount = @ + 1])
              ELSE StoreUnchanged
           /\ ret' = Returned("restart", sessionId, None, None,
                              Result(success, None), 310)
    /\ tasks' = Finish(task)
    /\ driverCall' = NoDriverCall
    /\ UNCHANGED <<platformOS, stopStands, now, restartAttempts, snapOrig, restartDriverCalls, validatorVars, queueVars, screenVars>>

-----------------------------------------------------------------------------
(* The metrics queries and clears *)

\* what a call of clearMetrics hands back: nothing; value is history, what
\* the two Map.delete calls returned (whether they found an entry)
Cleared(sessionId) ==
    [NoRet EXCEPT !.op = "clearMetrics", !.sid = sessionId, !.line = 333,
                  !.value = Some([record |-> Has(metrics, sessionId),
                                  counter |-> Has(restartAttempts, sessionId)])]

\* clearMetrics with clear() for delete(sessionId), as clearAllMetrics has it
clearMetricsOfAll(sessionId) ==
    /\ metrics' = EmptyMap
    /\ restartAttempts' = EmptyMap
    /\ snapAlias' = {}
    /\ restartDriverCalls' = [s \in Sessions |-> 0]
    /\ tasks' = CancelAll(tasks, Sessions, "clear")
    /\ ret' = Cleared(sessionId)
    /\ driverCall' = NoDriverCall
    /\ stopStands' = {}
    /\ UNCHANGED <<platformOS, now, snapshot, snapOrig, validatorVars, queueVars, screenVars>>

\* lines 330-333
clearMetrics(sessionId) ==
    /\ metrics' = MapDelete(metrics, sessionId)
    /\ restartAttempts' = MapDelete(restartAttempts, sessionId)
    /\ snapAlias' = snapAlias \ {sessionId}
    /\ restartDriverCalls' = [restartDriverCalls EXCEPT ![sessionId] = 0]
    /\ tasks' = CancelAll(tasks, {sessionId}, "clear")
    /\ ret' = Cleared(sessionId)
    /\ driverCall' = NoDriverCall
    /\ stopStands' = stopStands \ {sessionId}
    /\ UNCHANGED <<platformOS, now, snapshot, snapOrig, validatorVars, queueVars, screenVars>>

\* lines 338-341
clearAllMetrics ==
    /\ metrics' = EmptyMap
    /\ restartAttempts' = EmptyMap
    /\ snapAlias' = {}
    /\ restartDriverCalls' = [s \in Sessions |-> 0]
    /\ tasks' = CancelAll(tasks, Sessions, "clear")
    /\ ret' = NoRet
    /\ driverCall' = NoDriverCall
    /\ stopStands' = {}
    /\ UNCHANGED <<platformOS, now, snapshot, snapOrig, validatorVars, queueVars, screenVars>>

\* lines 323-325: new Map(this.metrics), a copy of the Map that shares the
\* records with the store
getAllAdvertisingMetrics ==
    /\ snapshot' = metrics
    /\ snapAlias' = DOMAIN metrics
    /\ snapOrig' = metrics
    /\ ret' = NoRet
    /\ driverCall' = NoDriverCall
    /\ UNCHANGED <<platformOS, stopStands, now, metrics, restartAttempts, tasks, restartDriverCalls, validatorVars, queueVars, screenVars>>

RECURSIVE GCD(_, _)
GCD(a, b) == IF b = 0 THEN a ELSE GCD(b, a % b)

\* the quotient a / b of two numbers that are not negative, as JavaScript
\* computes it: a fraction in lowest terms, Infinity (1/0) or NaN (0/0)
Divide(a, b) ==
    IF b = 0 THEN [num |-> IF a = 0 THEN 0 ELSE 1, den |-> 0]
    ELSE [num |-> a \div GCD(a, b), den |-> b \div GCD(a, b)]

RECURSIVE SumOver(_, _, _)
\* sessions.reduce((sum, s) => sum + s[field], 0), over the records of a store
SumOver(store, ids, field) ==
    IF ids = {} THEN 0
    ELSE LET id == CHOOSE id \in ids : TRUE
         IN  store[id][field] + SumOver(store, ids \ {id}, field)

\* averageDuration without the test of line 359: the division is always made
averageDurationUnguarded(store) ==
    Divide(SumOver(store, DOMAIN store, "duration"), Cardinality(DOMAIN store))

\* lines 359-361
averageDuration(store) ==
    IF Cardinality(DOMAIN store) > 0
    THEN Divide(SumOver(store, DOMAIN store, "duration"), Cardinality(DOMAIN store))
    ELSE Divide(0, 1)

\* AdvertisingStatistics with successfulSessions counting only the sessions
\* that are still advertising (success and no stopTime)
AdvertisingStatisticsOfActive(store) ==
    LET sessions == DOMAIN store
    IN  [totalSessions |-> Cardinality(sessions),
         successfulSessions |->
             Cardinality({s \in sessions : store[s].success /\ store[s].stopTime = None}),
         failedSessions |-> Cardinality({s \in sessions : ~store[s].success}),
         averageDuration |-> averageDuration(store),
         totalRestarts |-> SumOver(store, sessions, "restartCount"),
         payloadTransmissions |->
             Cardinality({s \in sessions : store[s].payloadTransmitted = Some(TRUE)})]

\* lines 354-370, on the records of a store
AdvertisingStatistics(store) ==
    LET sessions == DOMAIN store
    IN  [totalSessions |-> Cardinality(sessions),
         successfulSessions |-> Cardinality({s \in sessions : store[s].success}),
         failedSessions |-> Cardinality({s \in sessions : ~store[s].success}),
         averageDuration |-> averageDuration(store),
         totalRestarts |-> SumOver(store, sessions, "restartCount"),
         payloadTransmissions |->
             Cardinality({s \in sessions : store[s].payloadTransmitted = Some(TRUE)})]

\* a caller invokes getAdvertisingStatistics()
getAdvertisingStatistics ==
    /\ ret' = [NoRet EXCEPT !.op = "statistics", !.line = 363,
                            !.value = Some(AdvertisingStatistics(metrics))]
    /\ driverCall' = NoDriverCall
    /\ StoreUnchanged
    /\ UNCHANGED <<platformOS, stopStands, now, restartAttempts, tasks, snapOrig, restartDriverCalls, validatorVars, queueVars, screenVars>>

\* time passes
Tick ==
    /\ now < MaxTicks * ClockStep
    /\ now' = now + ClockStep
    /\ ret' = NoRet
    /\ driverCall' = NoDriverCall
    /\ submitCall' = NoSubmitCall
    /\ StoreUnchanged
    /\ UNCHANGED <<platformOS, stopStands, restartAttempts, tasks, snapOrig, restartDriverCalls,
                   validatorVars, queue, flushes, screenVars>>

\* time passes, for callers that wait for one restart to end before they
\* make the next
TickSerial ==
    /\ now < MaxSerialTicks * ClockStep
    /\ now' = now + ClockStep
    /\ ret' = NoRet
    /\ driverCall' = NoDriverCall
    /\ submitCall' = NoSubmitCall
    /\ StoreUnchanged
    /\ UNCHANGED <<platformOS, stopStands, restartAttempts, tasks, snapOrig, restartDriverCalls,
                   validatorVars, queue, flushes, screenVars>>

-----------------------------------------------------------------------------
(* The builders and the validator, called on their own *)

\* service identifiers: well formed in lower and in upper case, empty, with
\* the last group missing, with a group too long, with a letter that is not
\* a hexadecimal digit, with a digit for a hyphen and with a hyphen for a digit
UpperUUID ==
    << "A","B","C","D","E","F","0","1", "-", "2","3","4","5", "-",
       "6","7","8","9", "-", "a","B","c","D", "-",
       "e","F","0","1","2","3","4","5","6","7","8","9" >>
ServiceUUIDs ==
    { ValidUUID, UpperUUID, <<>>, SubSeq(ValidUUID, 1, 23), ValidUUID \o <<"0">>,
      [ValidUUID EXCEPT ![1] = "g"], [ValidUUID EXCEPT ![9] = "0"],
      [ValidUUID EXCEPT ![36] = "-"] }

DeviceNames == {"", "Alice-Phone"}

\* payloads: complete, without a wallet address, with the timestamp 0,
\* without a timestamp, and without both
Payloads ==
    { GoodPayload,
      [GoodPayload EXCEPT !.walletAddress = ""],
      [GoodPayload EXCEPT !.timestamp = Some(0)],
      [GoodPayload EXCEPT !.timestamp = None],
      [GoodPayload EXCEPT !.walletAddress = "", !.timestamp = None] }

\* the values around the limits of each range
TxPowerLevels == {-31, -30, 10, 11}
AdvertiseModes == {-1, 0, 2, 3}
Intervals == {None, Some(-5), Some(0), Some(19), Some(20), Some(10240), Some(10241)}

\* the configurations a caller can assemble from these values
ConfigInputs ==
    { [createAdvertisingConfig(name, uuid) EXCEPT
          !.txPowerLevel = power, !.advertiseMode = mode,
          !.interval = interval, !.payload = payload] :
        name \in DeviceNames, uuid \in ServiceUUIDs, power \in TxPowerLevels,
        mode \in AdvertiseModes, interval \in Intervals,
        payload \in {None} \cup {Some(p) : p \in Payloads} }

\* no call of the validator
NotValidated ==
    [by |-> "none", config |-> None, done |-> FALSE, valid |-> FALSE,
     errors |-> <<>>]

\* a call of validateAdvertisingConfig about to be made on `config`, which
\* the caller has assembled itself or got from the builder `by`
Pending(by, config) ==
    [NotValidated EXCEPT !.by = by, !.config = Some(config)]

\* the call returns
Return(call) ==
    LET validation == validateAdvertisingConfig(Val(call.config))
    IN  [call EXCEPT !.done = TRUE, !.valid = validation.valid,
                     !.errors = validation.errors]

ControllerUnchanged ==
    UNCHANGED <<platformOS, stopStands, now, metrics, restartAttempts, tasks, ret,
                driverCall, snapshot, snapAlias, snapOrig, restartDriverCalls,
                queueVars, screenVars>>

\* a caller validates a configuration it has assembled
Validate ==
    /\ validated.by = "caller" /\ ~validated.done
    /\ validated' = Return(validated)
    /\ ControllerUnchanged

\* a caller validates a configuration while the controller is at work; by
\* is history: whether the last call before this one had the same config
Revalidate(config) ==
    /\ validated' = Return(Pending(IF validated.done /\ validated.config = Some(config)
                                   THEN "caller again" ELSE "caller",
                                   config))
    /\ ControllerUnchanged

\* a caller validates what createPaymentAdvertisingConfig returned
ValidatePaymentConfig ==
    /\ validated.by = "createPaymentAdvertisingConfig" /\ ~validated.done
    /\ validated' = Return(validated)
    /\ ControllerUnchanged

\* a caller validates what createAdvertisingConfig returned
ValidateBasicConfig ==
    /\ validated.by = "createAdvertisingConfig" /\ ~validated.done
    /\ validated' = Return(validated)
    /\ ControllerUnchanged

-----------------------------------------------------------------------------
(* The offline payment queue (spec 4.4 and 5).  Its code is not among the    *)
(* sources: qr-pay.tsx only shows a payment coming back 'queued'.  An entry  *)
(* is identified by its position in the queue, which is its creation order;  *)
(* its payload and chain id are opaque to the queue and left out.            *)

\* the configured maximum of retryCount
maxRetries == 1

\* the time-to-live values callers enqueue with: already expired, and short
TTLs == {-1, 1000}

\* what submitFn can do: report success, or report failure or throw, which
\* flush treats alike
SubmitOutcomes == {TRUE, FALSE}

Terminal == {"sent", "failed", "expired"}

\* witnesses is history: the flush calls still running that were running
\* when the entry was last handed to submitFn
QueuedPayment(createdAt, ttl) ==
    [createdAt |-> createdAt, expiry |-> createdAt + ttl, retryCount |-> 0,
     status |-> "pending", witnesses |-> {}]

\* the entries with status pending, oldest first
RECURSIVE PendingFrom(_, _)
PendingFrom(q, i) ==
    IF i > Len(q) THEN <<>>
    ELSE (IF q[i].status = "pending" THEN <<i>> ELSE <<>>) \o PendingFrom(q, i + 1)

\* the same, newest first
RECURSIVE PendingNewestFirst(_)
PendingNewestFirst(q) ==
    IF Len(q) = 0 THEN <<>>
    ELSE (IF q[Len(q)].status = "pending" THEN <<Len(q)>> ELSE <<>>)
             \o PendingNewestFirst(SubSeq(q, 1, Len(q) - 1))

\* all pending entries in creation order
PendingEntries(q) == PendingFrom(q, 1)

\* a flush call: the entries it has still to visit, the entry it has handed
\* to submitFn (0 when none), and its report; listed and visited are
\* history: the entries that were pending when it was called and, for every
\* entry it has visited, the status it found, whether the entry's expiry
\* was before now, and what it did
NewFlush(id, q) ==
    [id |-> id, todo |-> PendingEntries(q), current |-> 0,
     report |-> [sentCount |-> 0, failedCount |-> 0, expiredCount |-> 0],
     listed |-> {i \in 1..Len(q) : q[i].status = "pending"}, visited |-> <<>>]

Visit(flush, entry, q, did) ==
    [flush EXCEPT !.todo = Tail(@),
                  !.visited = Append(@, [entry |-> entry, seen |-> q[entry].status,
                                         late |-> now > q[entry].expiry,
                                         did |-> did])]

\* the claim step without its test: an entry of the list is taken whatever
\* status it has by now
MayClaimAnyStatus(entry) == TRUE

\* the claim step of spec 5: only an entry that is still pending is taken
MayClaim(entry) == entry.status = "pending"

RECURSIVE FlushRun(_, _, _)
\* flush from the entry it visits next up to its next `await submitFn` or to
\* its return; `running` are the other flush calls in progress
FlushRun(q, flush, running) ==
    IF flush.todo = <<>>
    THEN [queue |-> q, flush |-> flush, call |-> NoSubmitCall, returns |-> TRUE]
    ELSE LET entry == Head(flush.todo)
         IN  IF ~MayClaim(q[entry])
             THEN FlushRun(q, Visit(flush, entry, q, "skipped"), running)
             ELSE IF now > q[entry].expiry
             THEN FlushRun([q EXCEPT ![entry].status = "expired"],
                           [Visit(flush, entry, q, "expired")
                               EXCEPT !.report.expiredCount = @ + 1],
                           running)
             ELSE [queue |-> [q EXCEPT ![entry].status = "sending",
                                       ![entry].witnesses = running \cup {flush.id}],
                   flush |-> [Visit(flush, entry, q, "submitted")
                                 EXCEPT !.current = entry],
                   call |-> [entry |-> entry, flush |-> flush.id,
                             again |-> flush.id \in q[entry].witnesses],
                   returns |-> FALSE]

\* a run of flush takes effect: the call suspends again or returns
FlushStep(run, others) ==
    /\ submitCall' = run.call
    /\ IF run.returns
       THEN /\ flushes' = others
            /\ queue' = [i \in 1..Len(run.queue) |->
                            [run.queue[i] EXCEPT !.witnesses = @ \ {run.flush.id}]]
            /\ ret' = [NoRet EXCEPT !.op = "flush",
                                    !.value = Some([report |-> run.flush.report,
                                                    listed |-> run.flush.listed,
                                                    visited |-> run.flush.visited])]
       ELSE /\ flushes' = others \cup {run.flush}
            /\ queue' = run.queue
            /\ ret' = NoRet
    /\ UNCHANGED <<platformOS, stopStands, now, metrics, restartAttempts, tasks, driverCall,
                   snapshot, snapAlias, snapOrig, restartDriverCalls, validatorVars,
                   screenVars>>

\* enqueue(payload, chainId, ttl)
enqueue(ttl) ==
    /\ Len(queue) < MaxEntries
    /\ queue' = Append(queue, QueuedPayment(now, ttl))
    /\ submitCall' = NoSubmitCall
    /\ ret' = NoRet
    /\ UNCHANGED <<platformOS, stopStands, now, metrics, restartAttempts, tasks, driverCall,
                   snapshot, snapAlias, snapOrig, restartDriverCalls, validatorVars,
                   flushes, screenVars>>

\* a caller invokes flush(nowFn, submitFn)
flush ==
    /\ Cardinality(flushes) < MaxFlushes
    /\ LET id == CHOOSE id \in 1..MaxFlushes : \A f \in flushes : f.id # id
       IN  FlushStep(FlushRun(queue, NewFlush(id, queue), {f.id : f \in flushes}),
                     flushes)

\* Settle with `reaches` for `exceeds`: one retry less
SettleOneRetryLess(entry, success) ==
    IF success THEN [entry EXCEPT !.status = "sent"]
    ELSE [entry EXCEPT !.retryCount = @ + 1,
                       !.status = IF entry.retryCount + 1 >= maxRetries
                                  THEN "failed" ELSE "pending"]

\* what the outcome of submitFn makes of the entry
Settle(entry, success) ==
    IF success THEN [entry EXCEPT !.status = "sent"]
    ELSE [entry EXCEPT !.retryCount = @ + 1,
                       !.status = IF entry.retryCount + 1 > maxRetries
                                  THEN "failed" ELSE "pending"]

\* `await submitFn(entry)` settles in the flush call f
SubmitReturn(f, success) ==
    /\ f \in flushes
    /\ LET settled == Settle(queue[f.current], success)
           report == [f.report EXCEPT
                         !.sentCount = IF settled.status = "sent" THEN @ + 1 ELSE @,
                         !.failedCount = IF settled.status = "failed" THEN @ + 1 ELSE @]
       IN  FlushStep(FlushRun([queue EXCEPT ![f.current] = settled],
                              [f EXCEPT !.current = 0, !.report = report],
                              {g.id : g \in flushes \ {f}}),
                     flushes \ {f})

-----------------------------------------------------------------------------
(* The QR pay screen (app/qr-pay.tsx) *)

\* A press handler runs to its first await and React renders the state it
\* has set before the next event is handled, so an action is a handler
\* together with the render that follows it, and `screen` is both the state
\* and what the rendered components were given.

\* the texts an amount field holds here, and what parseFloat makes of them
\* (None is NaN)
Amounts == {"", "0", "5"}
parseFloat(text) ==
    IF text = "5" THEN Some(5) ELSE IF text = "0" THEN Some(0) ELSE None

\* lines 53-56
validateAmount(value) ==
    LET numValue == parseFloat(value)
    IN  IsSome(numValue) /\ Val(numValue) > 0 /\ Val(numValue) <= 1000000

\* lines 33-42: the initial useState values
InitialScreen ==
    [showScanner |-> TRUE, isProcessing |-> FALSE, showPaymentSetup |-> FALSE,
     paymentSetup |-> FALSE, amount |-> "", selectedToken |-> FALSE,
     isAmountValid |-> TRUE]

InitScreen ==
    /\ screen = InitialScreen
    /\ alert = "none"
    /\ sendPayments = 0

\* what a step of the screen leaves alone
RestUnchanged ==
    UNCHANGED <<platformOS, stopStands, now, metrics, restartAttempts, tasks, ret,
                driverCall, snapshot, snapAlias, snapOrig, restartDriverCalls,
                validatorVars, queueVars>>

\* line 684: the scanner is rendered
ScannerShown == screen.showScanner /\ ~screen.isProcessing

\* lines 113-166: the scanner reports a code; `address` says whether the code
\* has a recipient in it and `qrAmount` is the amount it names, "" if none
handleScan(address, qrAmount) ==
    /\ ScannerShown /\ alert = "none"
    /\ IF address
       THEN /\ screen' = [screen EXCEPT
                             !.showScanner = FALSE,
                             !.paymentSetup = TRUE,
                             !.amount = IF qrAmount # "" THEN qrAmount ELSE @,
                             !.isAmountValid =
                                 IF qrAmount # "" THEN validateAmount(qrAmount) ELSE @,
                             !.showPaymentSetup = TRUE,
                             !.isProcessing = FALSE]
            /\ UNCHANGED alert
       ELSE /\ screen' = [screen EXCEPT !.showScanner = FALSE, !.isProcessing = FALSE]
            /\ alert' = "Scan Error"
    /\ UNCHANGED sendPayments
    /\ RestUnchanged

\* lines 168-170, from the token list of the payment setup modal
handleTokenSelect ==
    /\ screen.showPaymentSetup /\ alert = "none"
    /\ screen' = [screen EXCEPT !.selectedToken = TRUE]
    /\ UNCHANGED <<alert, sendPayments>>
    /\ RestUnchanged

\* lines 58-83, from the amount field of the payment setup modal
handleAmountChange(value) ==
    /\ screen.showPaymentSetup /\ alert = "none"
    /\ screen' = [screen EXCEPT !.amount = value,
                                !.isAmountValid = validateAmount(value)]
    /\ UNCHANGED <<alert, sendPayments>>
    /\ RestUnchanged

\* line 715: the payment setup modal is closed
onClose ==
    /\ screen.showPaymentSetup /\ alert = "none"
    /\ screen' = [screen EXCEPT !.showPaymentSetup = FALSE]
    /\ UNCHANGED <<alert, sendPayments>>
    /\ RestUnchanged

\* lines 693-696: the Scan Again button
ScanAgain ==
    /\ ~screen.showScanner /\ ~screen.isProcessing
    /\ ~screen.showPaymentSetup /\ alert = "none"
    /\ screen' = [screen EXCEPT !.showScanner = TRUE]
    /\ UNCHANGED <<alert, sendPayments>>
    /\ RestUnchanged

\* line 631 without the isProcessing test
SendDisabledWithoutToken == ~screen.selectedToken

\* line 631: the disabled prop of the send button
SendDisabled == ~screen.selectedToken \/ screen.isProcessing

\* lines 182-213: a press of the send button, up to the await of
\* paymentService.sendPayment
handleSendPayment ==
    /\ screen.showPaymentSetup /\ alert = "none"
    /\ ~SendDisabled
    /\ IF ~screen.paymentSetup \/ ~screen.selectedToken
       THEN /\ alert' = "Error"
            /\ UNCHANGED <<screen, sendPayments>>
       ELSE IF \/ ~screen.isAmountValid
               \/ screen.amount = ""
               \/ ~IsSome(parseFloat(screen.amount))
               \/ Val(parseFloat(screen.amount)) <= 0
       THEN /\ alert' = "Invalid Amount"
            /\ UNCHANGED <<screen, sendPayments>>
       ELSE /\ sendPayments < MaxSends
            /\ screen' = [screen EXCEPT !.isProcessing = TRUE]
            /\ sendPayments' = sendPayments + 1
            /\ UNCHANGED alert
    /\ RestUnchanged

\* what paymentService.sendPayment ends in: a result with one of three
\* kinds of status, or an exception
SendOutcomes == {"queued", "sent", "failed", "thrown"}

\* `await paymentService.sendPayment(...)` settles: lines 225-270
SendPaymentReturn(outcome) ==
    /\ sendPayments > 0
    /\ sendPayments' = sendPayments - 1
    /\ alert' = IF outcome = "queued" THEN "Payment Queued"
                ELSE IF outcome = "sent" THEN "Payment Sent"
                ELSE "Payment Error"
    /\ UNCHANGED screen
    /\ RestUnchanged

\* lines 273-284
resetPaymentFlow ==
    screen' = [showScanner |-> TRUE, isProcessing |-> FALSE,
               showPaymentSetup |-> FALSE, paymentSetup |-> FALSE, amount |-> "",
               selectedToken |-> FALSE, isAmountValid |-> TRUE]

\* the user presses a button of the Alert on display: `button` is "OK", or
\* "View Queue" on the Payment Queued alert (lines 156-161, 184, 188, 229-269)
AlertButton(button) ==
    /\ alert # "none"
    /\ button = "View Queue" => alert = "Payment Queued"
    /\ alert' = "none"
    /\ IF button = "View Queue" THEN UNCHANGED screen
       ELSE IF alert \in {"Payment Queued", "Payment Sent"} THEN resetPaymentFlow
       ELSE IF alert = "Payment Error"
            THEN screen' = [screen EXCEPT !.isProcessing = FALSE]
       ELSE IF alert = "Scan Error"
            THEN screen' = [screen EXCEPT !.showScanner = TRUE]
       ELSE UNCHANGED screen
    /\ UNCHANGED sendPayments
    /\ RestUnchanged

-----------------------------------------------------------------------------
(* The specifications *)

InitController ==
    /\ platformOS \in Platforms
    /\ now = 0
    /\ metrics = EmptyMap
    /\ restartAttempts = EmptyMap
    /\ tasks = EmptyBag
    /\ ret = NoRet
    /\ driverCall = NoDriverCall
    /\ snapshot = EmptyMap
    /\ snapAlias = {}
    /\ snapOrig = EmptyMap
    /\ restartDriverCalls = [s \in Sessions |-> 0]
    /\ stopStands = {}

\* an empty queue and no flush in progress
InitQueue ==
    /\ queue = <<>>
    /\ flushes = {}
    /\ submitCall = NoSubmitCall

Init ==
    /\ InitController
    /\ validated = NotValidated
    /\ InitQueue
    /\ InitScreen

\* the controller, called for the sessions S with the configurations C, on
\* a driver whose startBroadcast and stopBroadcast end in one of the
\* outcomes StartOutcomes and StopOutcomes
Controller(S, C, StartOutcomes, StopOutcomes) ==
    \/ \E s \in S, c \in C : Start(s, c)
    \/ \E task \in DOMAIN tasks, o \in StartOutcomes : StartDriverReturn(task, o)
    \/ \E s \in S : Stop(s)
    \/ \E task \in DOMAIN tasks, o \in StopOutcomes : StopDriverReturn(task, o)
    \/ \E s \in S, c \in C : Restart(s, c)
    \/ \E task \in DOMAIN tasks : RestartTimer(task)
    \/ \E task \in DOMAIN tasks : RestartFinish(task)
    \/ \E s \in S : clearMetrics(s)
    \/ clearAllMetrics
    \/ Tick

\* one session, any configuration, any driver
Next == Controller({"s1"}, Configs, DriverOutcomes, DriverOutcomes)

Spec == Init /\ [][Next]_vars

\* a driver whose startBroadcast always fails: it resolves false or rejects
FailOutcomes == {Resolve(FALSE), Reject("driver error")}
NextFailingDriver == Controller({"s1"}, Configs, FailOutcomes, DriverOutcomes)

SpecFailingDriver == Init /\ [][NextFailingDriver]_vars

\* valid configurations on a driver that always resolves true
NextWorkingDriver ==
    Controller({"s1"}, {PaymentConfig, BasicConfig}, {Resolve(TRUE)}, {Resolve(TRUE)})

SpecWorkingDriver == Init /\ [][NextWorkingDriver]_vars

\* the same, with a caller that also takes snapshots of the store
NextSnapshot == NextWorkingDriver \/ getAllAdvertisingMetrics

SpecSnapshot == Init /\ [][NextSnapshot]_vars

\* callers that restart and clear two sessions, on a driver that always
\* resolves true
NextTwoSessions ==
    \/ \E task \in DOMAIN tasks : StartDriverReturn(task, Resolve(TRUE))
    \/ \E s \in Sessions : Restart(s, BasicConfig)
    \/ \E task \in DOMAIN tasks : RestartTimer(task)
    \/ \E task \in DOMAIN tasks : RestartFinish(task)
    \/ \E s \in Sessions : clearMetrics(s)
    \/ Tick

SpecTwoSessions == Init /\ [][NextTwoSessions]_vars

\* the same, with a caller that also asks for the statistics of the store
NextStatistics == NextWorkingDriver \/ getAdvertisingStatistics

SpecStatistics == Init /\ [][NextStatistics]_vars

\* a driver that can also reject with an error whose message is empty
StartOutcomes == DriverOutcomes \cup {Reject("")}

\* one session that callers start in both ways and with any configuration,
\* and stop, on a driver that starts or fails in any way
NextStarts ==
    \/ \E c \in Configs : Start("s1", c)
    \/ \E task \in DOMAIN tasks, o \in StartOutcomes : StartDriverReturn(task, o)
    \/ startPaymentAdvertising("s1", GoodPayload)
    \/ \E task \in DOMAIN tasks, o \in StartOutcomes : PaymentDriverReturn(task, o)
    \/ Stop("s1")
    \/ \E task \in DOMAIN tasks : StopDriverReturn(task, Resolve(TRUE))
    \/ Tick

SpecStarts == Init /\ [][NextStarts]_vars

\* one session that callers restart, stop and clear, on a driver that starts
\* or fails in any way
NextRestarts ==
    \/ \E c \in {BasicConfig, BadConfig} : Restart("s1", c)
    \/ \E task \in DOMAIN tasks : RestartTimer(task)
    \/ \E task \in DOMAIN tasks, o \in DriverOutcomes : StartDriverReturn(task, o)
    \/ \E task \in DOMAIN tasks : RestartFinish(task)
    \/ Stop("s1")
    \/ \E task \in DOMAIN tasks : StopDriverReturn(task, Resolve(TRUE))
    \/ clearMetrics("s1")
    \/ Tick

SpecRestarts == Init /\ [][NextRestarts]_vars

\* two sessions on a driver that always resolves true: callers start, stop
\* and clear the first and restart the second
NextIndependence ==
    \/ Start("s1", BasicConfig)
    \/ \E task \in DOMAIN tasks : StartDriverReturn(task, Resolve(TRUE))
    \/ Stop("s1")
    \/ \E task \in DOMAIN tasks : StopDriverReturn(task, Resolve(TRUE))
    \/ Restart("s2", BasicConfig)
    \/ \E task \in DOMAIN tasks : RestartTimer(task)
    \/ \E task \in DOMAIN tasks : RestartFinish(task)
    \/ clearMetrics("s1")
    \/ Tick

SpecIndependence == Init /\ [][NextIndependence]_vars

\* two sessions on a driver that always resolves true: a caller restarts
\* the first once, others start and stop the second
NextBackoff ==
    \/ ~Has(restartAttempts, "s1") /\ Restart("s1", BasicConfig)
    \/ \E task \in DOMAIN tasks : RestartTimer(task)
    \/ \E task \in DOMAIN tasks : StartDriverReturn(task, Resolve(TRUE))
    \/ \E task \in DOMAIN tasks : RestartFinish(task)
    \/ Start("s2", BasicConfig)
    \/ Stop("s2")
    \/ \E task \in DOMAIN tasks : StopDriverReturn(task, Resolve(TRUE))
    \/ Tick

SpecBackoff == Init /\ [][NextBackoff]_vars

\* what the payment builder makes of each payload
PaymentConfigs ==
    {createPaymentAdvertisingConfig("Alice-Phone", ValidUUID, payload) :
        payload \in Payloads}

\* one session that callers start in both ways with any payload, with and
\* without a wallet address and a timestamp
NextPayment ==
    \/ \E c \in PaymentConfigs : Start("s1", c)
    \/ \E task \in DOMAIN tasks, o \in DriverOutcomes : StartDriverReturn(task, o)
    \/ \E payload \in Payloads : startPaymentAdvertising("s1", payload)
    \/ \E task \in DOMAIN tasks, o \in DriverOutcomes : PaymentDriverReturn(task, o)
    \/ Tick

SpecPayment == Init /\ [][NextPayment]_vars

\* one session that callers start and restart on a driver that always resolves
\* true, and callers that validate configurations in between
NextRevalidate ==
    \/ \E c \in Configs : Revalidate(c)
    \/ \E c \in Configs : Start("s1", c)
    \/ \E task \in DOMAIN tasks : StartDriverReturn(task, Resolve(TRUE))
    \/ Restart("s1", BasicConfig)
    \/ Tick

SpecRevalidate == Init /\ [][NextRevalidate]_vars

\* one session that callers start, restart, stop and clear, on a driver
\* whose startBroadcast resolves true or false
NextBudget ==
    \/ Start("s1", BasicConfig)
    \/ \E task \in DOMAIN tasks, o \in {Resolve(TRUE), Resolve(FALSE)} :
          StartDriverReturn(task, o)
    \/ Restart("s1", BasicConfig)
    \/ \E task \in DOMAIN tasks : RestartTimer(task)
    \/ \E task \in DOMAIN tasks : RestartFinish(task)
    \/ Stop("s1")
    \/ \E task \in DOMAIN tasks : StopDriverReturn(task, Resolve(TRUE))
    \/ clearMetrics("s1")
    \/ clearAllMetrics
    \/ Tick

SpecBudget == Init /\ [][NextBudget]_vars

\* no start and no restart of the session is under way
NoStartUnderWay(sessionId) ==
    \A task \in DOMAIN tasks :
        ~(task.sid = sessionId /\ task.op \in {"start", "restart"})

\* two sessions whose callers wait for the start or restart of a session to
\* end before they start or restart that session again: the first is
\* started, restarted, stopped and cleared, the second is started, and a
\* caller asks for the statistics at any time
NextSerial ==
    \/ \E s \in Sessions : NoStartUnderWay(s) /\ Start(s, BasicConfig)
    \/ \E task \in DOMAIN tasks, o \in {Resolve(TRUE), Resolve(FALSE)} :
          StartDriverReturn(task, o)
    \/ NoStartUnderWay("s1") /\ Restart("s1", BasicConfig)
    \/ \E task \in DOMAIN tasks : RestartTimer(task)
    \/ \E task \in DOMAIN tasks : RestartFinish(task)
    \/ Stop("s1")
    \/ \E task \in DOMAIN tasks : StopDriverReturn(task, Resolve(TRUE))
    \/ clearMetrics("s1")
    \/ getAdvertisingStatistics
    \/ TickSerial

SpecSerial == Init /\ [][NextSerial]_vars

\* two sessions on a driver whose startBroadcast resolves true or false: the
\* first is started with and without a payload, stopped and cleared, the
\* second is started as a payment, and a caller asks for the statistics
NextPartition ==
    \/ \E c \in {BasicConfig, PaymentConfig} : Start("s1", c)
    \/ \E task \in DOMAIN tasks, o \in {Resolve(TRUE), Resolve(FALSE)} :
          StartDriverReturn(task, o)
    \/ startPaymentAdvertising("s2", GoodPayload)
    \/ \E task \in DOMAIN tasks, o \in {Resolve(TRUE), Resolve(FALSE)} :
          PaymentDriverReturn(task, o)
    \/ Stop("s1")
    \/ \E task \in DOMAIN tasks : StopDriverReturn(task, Resolve(TRUE))
    \/ clearMetrics("s1")
    \/ getAdvertisingStatistics

SpecPartition == Init /\ [][NextPartition]_vars

\* the QR pay screen alone: a user scans, fills in the payment, presses
\* Send and answers the alerts, and the payment service ends in any way
NextScreen ==
    \/ \E address \in BOOLEAN, qrAmount \in Amounts : handleScan(address, qrAmount)
    \/ handleTokenSelect
    \/ \E value \in Amounts : handleAmountChange(value)
    \/ onClose
    \/ ScanAgain
    \/ handleSendPayment
    \/ \E outcome \in SendOutcomes : SendPaymentReturn(outcome)
    \/ \E button \in {"OK", "View Queue"} : AlertButton(button)

SpecScreen == Init /\ [][NextScreen]_vars

\* the builders and the validator alone: a caller holds a configuration,
\* its own or a builder's, and validates it
InitValidator ==
    /\ InitController
    /\ InitQueue
    /\ InitScreen
    /\ validated \in
          {Pending("caller", config) : config \in ConfigInputs}
          \cup {Pending("createPaymentAdvertisingConfig",
                        createPaymentAdvertisingConfig(name, uuid, payload)) :
                  name \in DeviceNames, uuid \in ServiceUUIDs, payload \in Payloads}
          \cup {Pending("createAdvertisingConfig",
                        createAdvertisingConfig(name, uuid)) :
                  name \in DeviceNames, uuid \in ServiceUUIDs}

NextValidator ==
    \/ Validate
    \/ ValidatePaymentConfig
    \/ ValidateBasicConfig

SpecValidator == InitValidator /\ [][NextValidator]_vars

\* the offline queue alone: callers that enqueue and flush, a submitFn that
\* succeeds or fails, and the clock
NextQueue ==
    \/ \E ttl \in TTLs : enqueue(ttl)
    \/ flush
    \/ \E f \in flushes, success \in SubmitOutcomes : SubmitReturn(f, success)
    \/ Tick

SpecQueue == Init /\ [][NextQueue]_vars

-----------------------------------------------------------------------------
(* Properties *)

\* the message of a start that validation refuses (line 201)
ValidationError(config) ==
    "Invalid advertising configuration: "
        \o join(validateAdvertisingConfig(config).errors, ", ")

\* the store holds for the session of the last return a record of a failure
FailureRecorded ==
    /\ Has(metrics, ret.sid)
    /\ ~metrics[ret.sid].success
    /\ metrics[ret.sid].errorCount = 1

\* C1 (counts): the driver starts that restarts have made for a session since
\* it was last stopped or cleared never exceed its restart-attempt counter,
\* and that counter never exceeds maxRestartAttempts (3).
RestartCallsWithinBudget ==
    \A s \in Sessions :
        /\ restartDriverCalls[s] <= Attempts(s)
        /\ Attempts(s) <= maxRestartAttempts

\* C1 (refusal): a restartAdvertisingIfNeeded call that finds the counter at
\* 3 returns false and leaves the counter as it is, suspends on no timer and
\* calls no driver.
RestartRefusedWhenExhausted ==
    \A s \in Sessions, c \in Configs :
        (Attempts(s) >= maxRestartAttempts /\ Restart(s, c)) =>
            /\ ret'.op = "restart" /\ ~ret'.success /\ ret'.line = 291
            /\ driverCall'.fn = "none"
            /\ UNCHANGED <<restartAttempts, tasks, metrics, restartDriverCalls>>

\* C1: restart budget.  With a driver whose startBroadcast always fails,
\* restartAdvertisingIfNeeded causes at most 3 driver start attempts for a
\* session between two stops or clears of it, and a call made once the
\* count has reached 3 returns false without incrementing the counter,
\* without waiting and without calling the driver.
C1_RestartBudget ==
    /\ []RestartCallsWithinBudget
    /\ [][RestartRefusedWhenExhausted]_vars

\* C1 witness: a restart call has just been refused at count 3, after
\* restarts of the session had called the failing driver
C1_Witness ==
    /\ ret.op = "restart" /\ ret.line = 291
    /\ Attempts(ret.sid) = maxRestartAttempts
    /\ restartDriverCalls[ret.sid] >= 2

\* C2: a restart whose session was stopped while it was suspended in its
\* backoff does not call driver.startBroadcast when the delay elapses.
C2_StoppedRestartDoesNotFire ==
    ~(driverCall.fn = "startBroadcast" /\ driverCall.viaRestart
      /\ driverCall.cancel = "stop")

\* C3: when stopAdvertisingWithEnhancements returns, whatever stopBroadcast
\* did (resolved true, resolved false, rejected), the restart-attempt
\* counter has no entry for the session.
C3_StopClearsCounter ==
    ret.op = "stop" => ~Has(restartAttempts, ret.sid)

\* C4: stopAdvertisingWithEnhancements returns success = true only when
\* stopBroadcast resolved true; a false result and a rejection both give
\* success = false.
C4_StopMirrorsDriver ==
    ret.op = "stop" => (ret.success <=> ret.outcome = Some(Resolve(TRUE)))

\* C5: validation gate.  A start with a config that validation rejects
\* returns success = false with the validation errors joined into one
\* message, leaves a failure record for the session, and has not called the
\* driver; no startBroadcast call is ever made for a rejected config.
C5_ValidationGate ==
    /\ (ret.op = "start" /\ ~validateAdvertisingConfig(Val(ret.config)).valid) =>
          /\ ~ret.success /\ ~ret.threw
          /\ ret.error = Some(ValidationError(Val(ret.config)))
          /\ ret.outcome = None
          /\ FailureRecorded
    /\ driverCall.fn = "startBroadcast" =>
          validateAdvertisingConfig(Val(driverCall.config)).valid

\* C5 witness: a start with the rejected config has returned its two errors
C5_Witness ==
    /\ ret.op = "start" /\ ret.config = Some(BadConfig)
    /\ ret.error = Some("Invalid advertising configuration: Device name is required, TX power level must be between -30 and 10 dBm")

\* C6 as claimed: on an unsupported platform a start with any config, valid
\* or not, returns the platform-unsupported error.
C6_PlatformErrorForEveryConfig ==
    (platformOS # Android /\ ret.op = "start") =>
        /\ ~ret.success
        /\ ret.error = Some(PlatformError)

\* C6 as amended: on an unsupported platform a start never calls the driver,
\* returns success = false and leaves a failure record; its error is the
\* platform-unsupported error when the config is valid and the validation
\* error when it is not (validation is checked first).
C6_PlatformGate ==
    platformOS # Android =>
        /\ driverCall.fn # "startBroadcast"
        /\ ret.op = "start" =>
              /\ ~ret.success /\ ~ret.threw
              /\ ret.outcome = None
              /\ FailureRecorded
              /\ ret.error =
                    IF validateAdvertisingConfig(Val(ret.config)).valid
                    THEN Some(PlatformError)
                    ELSE Some(ValidationError(Val(ret.config)))

\* C6 witness: a start with a valid config was refused for the platform
C6_Witness ==
    /\ platformOS # Android
    /\ ret.op = "start" /\ ret.config = Some(PaymentConfig)
    /\ ret.error = Some(PlatformError)

\* C7: start never throws.  When startBroadcast resolved a falsy value or
\* rejected, the start returns success = false with an error instead of
\* throwing, and the success flag it returns is the success flag of the
\* record it wrote for the session.
C7_StartNeverThrows ==
    ret.op = "start" =>
        /\ ~ret.threw
        /\ Has(metrics, ret.sid) /\ metrics[ret.sid].success = ret.success
        /\ (IsSome(ret.outcome) /\ Val(ret.outcome) # Resolve(TRUE)) =>
              (~ret.success /\ IsSome(ret.error))

\* C7 witness: a start has returned the message of a rejected startBroadcast
C7_Witness ==
    /\ ret.op = "start"
    /\ ret.outcome = Some(Reject("driver error"))
    /\ ret.error = Some("driver error")

\* C8: successful start.  On a supported platform, a start with a valid
\* config whose startBroadcast resolved true returns success = true, and the
\* record of the session has success = true, errorCount = 0 and
\* payloadTransmitted = whether the config carries a payload.
C8_SuccessfulStart ==
    (/\ platformOS = Android
     /\ ret.op = "start"
     /\ validateAdvertisingConfig(Val(ret.config)).valid
     /\ ret.outcome = Some(Resolve(TRUE))) =>
        /\ ret.success /\ ret.error = None /\ ~ret.threw
        /\ Has(metrics, ret.sid)
        /\ metrics[ret.sid].success
        /\ metrics[ret.sid].errorCount = 0
        /\ metrics[ret.sid].payloadTransmitted = Some(IsSome(Val(ret.config).payload))

\* C8 witness: a start without a payload has succeeded
C8_Witness ==
    /\ ret.op = "start" /\ ret.success
    /\ ret.config = Some(BasicConfig)
    /\ metrics[ret.sid].payloadTransmitted = Some(FALSE)

\* C9: a restartAdvertisingIfNeeded call made while the platform is
\* unsupported leaves the restart-attempt counter of the session unchanged.
C9_UnsupportedPlatformKeepsBudget ==
    [][\A s \in Sessions, c \in Configs :
          (platformOS # Android /\ Restart(s, c)) => UNCHANGED restartAttempts]_vars

\* C10: the Map returned by getAllAdvertisingMetrics is a point-in-time
\* copy: whatever happens later, it shows the sessions and the fields it
\* showed when it was returned.
C10_SnapshotIsolated == snapshot = snapOrig

\* C11: duration on stop.  A record that no stop has marked has duration 0;
\* a record that a stop has marked has duration = stopTime - startTime, which
\* is not negative (the clock of the model does not go back).
C11_DurationOnStop ==
    \A s \in DOMAIN metrics :
        LET record == metrics[s]
        IN  IF IsSome(record.stopTime)
            THEN /\ record.duration = Val(record.stopTime) - record.startTime
                 /\ record.duration >= 0
            ELSE record.duration = 0

\* C11 witness: a stop has just marked a record that was started one
\* backoff delay earlier
C11_Witness ==
    /\ ret.op = "stop" /\ Has(metrics, ret.sid)
    /\ metrics[ret.sid].stopTime = Some(now)
    /\ metrics[ret.sid].duration = restartDelay

\* how many times a message is in an error list
Occurrences(msg, errors) ==
    Cardinality({i \in 1..Len(errors) : errors[i] = msg})

RECURSIVE SplitOn(_, _)
\* the groups of a string between the occurrences of a separator
SplitOn(str, sep) ==
    IF \A i \in 1..Len(str) : str[i] # sep THEN <<str>>
    ELSE LET first == CHOOSE i \in 1..Len(str) :
                          str[i] = sep /\ \A j \in 1..(i - 1) : str[j] # sep
         IN  <<SubSeq(str, 1, first - 1)>>
                 \o SplitOn(SubSeq(str, first + 1, Len(str)), sep)

HexadecimalDigit(ch) ==
    \/ ch \in {"0", "1", "2", "3", "4", "5", "6", "7", "8", "9"}
    \/ ch \in {"a", "b", "c", "d", "e", "f"}
    \/ ch \in {"A", "B", "C", "D", "E", "F"}

\* five hyphen-separated groups of 8, 4, 4, 4 and 12 hexadecimal digits
WellFormedServiceId(uuid) ==
    LET groups == SplitOn(uuid, "-")
    IN  /\ Len(groups) = 5
        /\ \A g \in 1..5 :
              /\ Len(groups[g]) = <<8, 4, 4, 4, 12>>[g]
              /\ \A i \in 1..Len(groups[g]) : HexadecimalDigit(groups[g][i])

\* the rules of spec 3 and 4.1 that a configuration violates, each named by
\* the message validate has for it
ViolatedRules(config) ==
    {msg \in {"Device name is required"} : config.deviceName = ""}
    \cup {msg \in {"Service UUID is required"} : config.serviceUUID = <<>>}
    \cup {msg \in {"Invalid service UUID format"} :
              ~WellFormedServiceId(config.serviceUUID)}
    \cup {msg \in {"TX power level must be between -30 and 10 dBm"} :
              config.txPowerLevel \notin -30..10}
    \cup {msg \in {"Advertise mode must be 0, 1, or 2"} :
              config.advertiseMode \notin 0..2}
    \cup {msg \in {"Advertising interval must be between 20ms and 10240ms"} :
              IsSome(config.interval) /\ Val(config.interval) \notin 20..10240}
    \cup {msg \in {"Payload wallet address is required"} :
              IsSome(config.payload) /\ Val(config.payload).walletAddress = ""}
    \cup {msg \in {"Payload timestamp is required"} :
              IsSome(config.payload) /\ Val(config.payload).timestamp = None}

\* C12: validation completeness.  The error list validate returns has one
\* error for every rule the config violates (device name, service id
\* presence, UUID shape, transmit power, advertise mode, interval range,
\* payload wallet address, payload timestamp), and valid is false exactly
\* when the list is not empty.
C12_ValidationComplete ==
    validated.done =>
        /\ \A msg \in ViolatedRules(Val(validated.config)) :
              Occurrences(msg, validated.errors) = 1
        /\ ~validated.valid <=> validated.errors # <<>>

\* the errors of the last validate call that are about the service id
ServiceIdErrors ==
    {msg \in {"Service UUID is required", "Invalid service UUID format"} :
        Occurrences(msg, validated.errors) > 0}

\* C13: UUID acceptance.  validate raises no error about the service id
\* exactly when it is five hyphen-separated groups of 8-4-4-4-12
\* hexadecimal digits in either case, and raises one for every other string.
C13_UUIDAcceptance ==
    validated.done =>
        (ServiceIdErrors = {} <=>
            WellFormedServiceId(Val(validated.config).serviceUUID))

\* C13 witness: a service id in upper and mixed case was accepted
C13_Witness ==
    /\ validated.done
    /\ Val(validated.config).serviceUUID = UpperUUID
    /\ ServiceIdErrors = {}

\* C16: builder output is valid.  validate accepts, with an empty error
\* list, what the builders return for a non-empty device name, a
\* well-formed service id and a payload that has a non-empty wallet address
\* and a timestamp.
C16_BuilderOutputValid ==
    (/\ validated.done
     /\ validated.by \in {"createPaymentAdvertisingConfig", "createAdvertisingConfig"}
     /\ Val(validated.config).deviceName # ""
     /\ WellFormedServiceId(Val(validated.config).serviceUUID)
     /\ IsSome(Val(validated.config).payload) =>
            /\ Val(Val(validated.config).payload).walletAddress # ""
            /\ IsSome(Val(Val(validated.config).payload).timestamp)) =>
        /\ validated.valid
        /\ validated.errors = <<>>

\* C14: statistics on an empty store.  When the store holds no record,
\* getAdvertisingStatistics returns 0 for every count and 0 (not NaN, the
\* result of 0 / 0) for averageDuration.
C14_EmptyStatistics ==
    (ret.op = "statistics" /\ metrics = EmptyMap) =>
        Val(ret.value) =
            [totalSessions |-> 0, successfulSessions |-> 0, failedSessions |-> 0,
             averageDuration |-> [num |-> 0, den |-> 1], totalRestarts |-> 0,
             payloadTransmissions |-> 0]

\* C14 witness: the statistics were asked for after a restart had written a
\* record and a clear had emptied the store
C14_Witness ==
    /\ ret.op = "statistics" /\ metrics = EmptyMap
    /\ \E task \in DOMAIN tasks : task.pc = "afterStart"

\* C15 as claimed: clearMetrics for a session without a record is a no-op:
\* it changes neither the store nor any restart-attempt counter.
C15_ClearWithoutRecordIsNoOp ==
    [][\A s \in Sessions :
          (~Has(metrics, s) /\ clearMetrics(s)) =>
              UNCHANGED <<metrics, restartAttempts>>]_vars

\* C15 as amended: clearMetrics for a session without a record leaves the
\* store and the restart-attempt counter of every other session unchanged
\* and removes only the session's own counter, if it has one; a second
\* clearMetrics for the same session right after the first changes nothing.
C15_IdempotentClear ==
    [][\A s \in Sessions :
          clearMetrics(s) =>
              /\ ~Has(metrics, s) =>
                    /\ metrics' = metrics
                    /\ restartAttempts' = MapDelete(restartAttempts, s)
                    /\ \A o \in Sessions \ {s} :
                          /\ Has(restartAttempts', o) = Has(restartAttempts, o)
                          /\ Has(restartAttempts, o) =>
                                restartAttempts'[o] = restartAttempts[o]
              /\ (ret.op = "clearMetrics" /\ ret.sid = s) =>
                    UNCHANGED <<metrics, restartAttempts>>]_vars

\* C15 witness: clearMetrics has just removed the counter of a session that
\* had no record, while the other session keeps its record and its counter
C15_Witness ==
    /\ ret.op = "clearMetrics"
    /\ Val(ret.value) = [record |-> FALSE, counter |-> TRUE]
    /\ \E o \in Sessions \ {ret.sid} : Has(metrics, o) /\ Has(restartAttempts, o)

\* C20: restart counter reset on advertise.  When a start that a caller
\* made has succeeded, the restart-attempt counter of its session is zero:
\* the session has its full budget of 3 automatic restarts again.
C20_StartResetsCounter ==
    (ret.op = "start" /\ ~ret.viaRestart /\ ret.success) => Attempts(ret.sid) = 0

\* what a flush call has done so far is right: it has visited entries in
\* creation order, has marked expired the pending entries whose expiry was
\* before now and submitted the other pending ones, and has submitted
\* nothing else
VisitsInOrder(visited) ==
    /\ \A i, j \in 1..Len(visited) : i < j => visited[i].entry < visited[j].entry
    /\ \A i \in 1..Len(visited) :
          /\ visited[i].seen = "pending" =>
                visited[i].did = IF visited[i].late THEN "expired" ELSE "submitted"
          /\ visited[i].did = "submitted" =>
                (visited[i].seen = "pending" /\ ~visited[i].late)

\* C17: offline queue FIFO and expiry.  A flush visits the entries that
\* were pending when it was called oldest first; a pending entry whose
\* expiry is before now is marked expired and not submitted, every other
\* pending entry is submitted; submitFn is only ever called for an entry
\* that has not expired; a flush that returns has visited all its entries.
C17_FlushFIFOAndExpiry ==
    /\ \A f \in flushes : VisitsInOrder(f.visited)
    /\ submitCall.entry # 0 =>
          /\ now <= queue[submitCall.entry].expiry
          /\ queue[submitCall.entry].status = "sending"
    /\ ret.op = "flush" =>
          /\ VisitsInOrder(Val(ret.value).visited)
          /\ {Val(ret.value).visited[i].entry :
                  i \in 1..Len(Val(ret.value).visited)} = Val(ret.value).listed
          /\ \A i \in 1..Len(Val(ret.value).visited) :
                Val(ret.value).visited[i].did = "expired" =>
                    queue[Val(ret.value).visited[i].entry].status = "expired"

\* C17 witness: a flush has returned that found the first entry expired and
\* submitted the second
C17_Witness ==
    /\ ret.op = "flush"
    /\ Len(Val(ret.value).visited) = 2
    /\ Val(ret.value).visited[1] =
          [entry |-> 1, seen |-> "pending", late |-> TRUE, did |-> "expired"]
    /\ Val(ret.value).visited[2] =
          [entry |-> 2, seen |-> "pending", late |-> FALSE, did |-> "submitted"]

SubmissionSettled ==
    \A f \in flushes, success \in SubmitOutcomes :
        SubmitReturn(f, success) =>
            LET before == queue[f.current]
                after == queue'[f.current]
            IN  IF success
                THEN after.status = "sent" /\ after.retryCount = before.retryCount
                ELSE /\ after.retryCount = before.retryCount + 1
                     /\ after.status = IF after.retryCount > maxRetries
                                       THEN "failed" ELSE "pending"

\* an entry that is sent, failed or expired stays in the queue as it is and
\* is not handed to submitFn
TerminalIsFinal ==
    \A i \in 1..Len(queue) :
        queue[i].status \in Terminal =>
            /\ Len(queue') >= i
            /\ queue'[i].status = queue[i].status
            /\ queue'[i].retryCount = queue[i].retryCount
            /\ submitCall'.entry # i

\* C19: offline queue bounded retry and terminal states.  A failed
\* submission increments retryCount and returns the entry to pending unless
\* retryCount exceeds maxRetries, in which case the entry becomes failed; an
\* entry that is sent, failed or expired is kept, never changes status again
\* and is never passed to submitFn again.
C19_BoundedRetry == [][SubmissionSettled /\ TerminalIsFinal]_vars

\* C19 witness: an entry has become failed after maxRetries + 1 failed
\* submissions and a later flush has returned without touching it
C19_Witness ==
    /\ ret.op = "flush"
    /\ \E i \in 1..Len(queue) :
          /\ queue[i].status = "failed"
          /\ queue[i].retryCount = maxRetries + 1
          /\ i \notin Val(ret.value).listed

\* C21 as claimed: when restartAdvertisingIfNeeded has found the budget
\* exhausted and returned false, the restart-attempt counter has no entry
\* for the session.
C21_ExhaustionDeletesCounter ==
    (ret.op = "restart" /\ ret.line = 291) => ~Has(restartAttempts, ret.sid)

\* C21 as amended: when restartAdvertisingIfNeeded has found the budget
\* exhausted and returned false, the restart-attempt counter of the session
\* is still there, at maxRestartAttempts.
C21_ExhaustionKeepsCounter ==
    (ret.op = "restart" /\ ret.line = 291) =>
        /\ Has(restartAttempts, ret.sid)
        /\ restartAttempts[ret.sid] = maxRestartAttempts

\* C21 witness: a restart has been refused and the counter has its entry
C21_Witness ==
    /\ ret.op = "restart" /\ ~ret.success /\ ret.line = 291
    /\ Has(restartAttempts, ret.sid)

\* C22: once a stop of a session has marked its record stopped, and no start
\* or restart of the session is called after that, the record stays stopped:
\* it is there and it has its stopTime. A call made before the stop (a start
\* at the await of the driver, a restart in its backoff) does not replace it.
C22_StoppedRecordStands ==
    \A s \in stopStands : Has(metrics, s) /\ IsSome(metrics[s].stopTime)

\* the start that was called before the stop has come back from the driver
\* and has written its record over the stopped one
C22_Overwritten ==
    \E s \in stopStands :
        /\ ret.op = "start" /\ ret.sid = s /\ ret.line \in {233, 237, 245}
        /\ Has(metrics, s) /\ metrics[s].stopTime = None

RestartCounted(s) ==
    /\ Has(metrics, s) /\ Has(metrics', s)
    /\ metrics'[s] = [metrics[s] EXCEPT !.restartCount = @ + 1]

\* C24 as stated: a restart that returns has incremented the restartCount of
\* its session exactly when the start it retried succeeded; a restart whose
\* start failed, or that found the budget exhausted, leaves the store as it is.
C24_CountedIffSucceeded ==
    [][ret'.op = "restart" =>
          IF ret'.line = 310 /\ ret'.success
          THEN RestartCounted(ret'.sid)
          ELSE metrics' = metrics]_vars

\* C24, amended: a restart that returns has incremented the restartCount of
\* its session exactly when the start it retried succeeded and the session
\* still has a record (line 305); in every other case it leaves the store as
\* it is.
C24_CountedIffSucceededAndRecorded ==
    [][ret'.op = "restart" =>
          IF ret'.line = 310 /\ ret'.success /\ Has(metrics, ret'.sid)
          THEN RestartCounted(ret'.sid)
          ELSE metrics' = metrics]_vars

\* a restart has returned true and the record counts it
C24_Witness ==
    /\ ret.op = "restart" /\ ret.line = 310 /\ ret.success
    /\ Has(metrics, ret.sid) /\ metrics[ret.sid].restartCount = 1

\* what a Map holds for a key
Entry(map, key) == IF Has(map, key) THEN Some(map[key]) ELSE None

\* this step is a step of start, stop, restartIfNeeded or clear on session s,
\* the call itself or the resumption of a suspended call: it returns to its
\* caller for s, or calls the driver for s, or is a restart of s that
\* goes into its backoff
StepOn(s) ==
    \/ ret'.op \in {"start", "startPayment", "stop", "restart", "clearMetrics"}
          /\ ret'.sid = s
    \/ driverCall'.fn # "none" /\ driverCall'.sid = s
    \/ \E task \in DOMAIN tasks' :
          /\ task.op = "restart" /\ task.pc = "backoff" /\ task.sid = s
          /\ task.cancel = "no"
          /\ CopiesIn(task, tasks') > CopiesIn(task, tasks)

\* C25: a step of start, stop, restartIfNeeded or clear on a session leaves
\* the metrics record and the restart-attempt counter of every other session
\* as they are: none is added, removed or changed, however the steps of the
\* two sessions interleave.
C25_SessionIndependence ==
    [][\A a \in Sessions : \A b \in Sessions \ {a} :
          StepOn(a) =>
              /\ Entry(metrics', b) = Entry(metrics, b)
              /\ Entry(restartAttempts', b) = Entry(restartAttempts, b)]_vars

\* a stop of s1 has marked its record and removed its counter while a
\* restart of s2 is in its backoff; s2 has its record and its counter
C25_Witness ==
    /\ ret.op = "stop" /\ ret.sid = "s1" /\ ret.success
    /\ Has(metrics, "s1") /\ IsSome(metrics["s1"].stopTime)
    /\ Has(metrics, "s2") /\ Has(restartAttempts, "s2")
    /\ \E task \in DOMAIN tasks : task.sid = "s2" /\ task.pc = "backoff"

\* this step suspends `task`, a restart, at its backoff
EntersBackoff(task) ==
    /\ task.op = "restart" /\ task.pc = "backoff" /\ task.cancel = "no"
    /\ CopiesIn(task, tasks') > CopiesIn(task, tasks)

\* this step resumes `task` from its backoff
LeavesBackoff(task) ==
    /\ task.op = "restart" /\ task.pc = "backoff"
    /\ CopiesIn(task, tasks') < CopiesIn(task, tasks)

\* in this step a restart goes into startAdvertisingWithEnhancements: the
\* start returns at once or calls the driver
RestartStarts ==
    \/ ret'.op = "start" /\ ret'.viaRestart /\ ret'.outcome = None
    \/ driverCall'.fn = "startBroadcast" /\ driverCall'.viaRestart

\* C26: backoff ordering.  The step in which a restart is suspended at its
\* backoff has incremented the counter of the session, has set the timer to
\* the full delay from now, and has neither started nor called the driver;
\* and a restart goes into the start (and so to the driver) only in a step
\* that resumes it from its backoff, at a time that is not before its timer.
C26_BackoffOrdering ==
    [][/\ \A task \in DOMAIN tasks' :
             EntersBackoff(task) =>
                 /\ Has(restartAttempts', task.sid)
                 /\ restartAttempts'[task.sid] = Attempts(task.sid) + 1
                 /\ task.wake = now + restartDelay
                 /\ now' = now
                 /\ ~RestartStarts
                 /\ driverCall'.fn = "none"
       /\ RestartStarts =>
             \E task \in DOMAIN tasks :
                 /\ LeavesBackoff(task)
                 /\ task.sid = IF ret'.op = "start" THEN ret'.sid ELSE driverCall'.sid
                 /\ now >= task.wake
                 /\ UNCHANGED restartAttempts]_vars

\* a restart has called the driver after its backoff; the counter of its
\* session counts it
C26_Witness ==
    /\ driverCall.fn = "startBroadcast" /\ driverCall.viaRestart
    /\ driverCall.cancel = "no"
    /\ now >= restartDelay
    /\ Attempts(driverCall.sid) >= 1

\* a restart of session s is suspended at its backoff and its timer has not
\* fired
InBackoff(s) ==
    \E task \in DOMAIN tasks :
        task.op = "restart" /\ task.pc = "backoff" /\ task.sid = s

\* the step that resumes the suspended call `task` can be taken
CanResume(task) ==
    CASE task.pc = "awaitDriver" /\ task.op = "stop" ->
             ENABLED StopDriverReturn(task, Resolve(TRUE))
      [] task.pc = "awaitDriver" /\ task.op = "startPayment" ->
             ENABLED PaymentDriverReturn(task, Resolve(TRUE))
      [] task.pc = "awaitDriver" -> ENABLED StartDriverReturn(task, Resolve(TRUE))
      [] task.pc = "afterStart" -> ENABLED RestartFinish(task)
      [] task.pc = "backoff" -> now >= task.wake => ENABLED RestartTimer(task)

\* C27: non-blocking backoff.  While a restart of s1 is suspended at its
\* backoff, the other session is not held up: a start, a stop and a restart
\* of s2 can be called, the metrics can be queried, and every suspended call
\* of s2 can be resumed when its driver call settles or its timer is due.
C27_BackoffDoesNotBlock ==
    InBackoff("s1") =>
        /\ Suspended < MaxTasks =>
              /\ ENABLED Start("s2", BasicConfig)
              /\ ENABLED Stop("s2")
              /\ ENABLED Restart("s2", BasicConfig)
        /\ ENABLED getAdvertisingStatistics
        /\ ENABLED getAllAdvertisingMetrics
        /\ \A task \in DOMAIN tasks : task.sid = "s2" => CanResume(task)

\* a stop of s2 has run to its end on a record that a start of s2 had
\* written, and the restart of s1 is still waiting for a timer that is not due
C27_Witness ==
    /\ ret.op = "stop" /\ ret.sid = "s2" /\ ret.success
    /\ Has(metrics, "s2") /\ metrics["s2"].success
    /\ IsSome(metrics["s2"].stopTime)
    /\ \E task \in DOMAIN tasks :
          /\ task.op = "restart" /\ task.pc = "backoff" /\ task.sid = "s1"
          /\ now < task.wake

\* C28: every message handed to startBroadcast that carries a payload is
\* the serialisation of a payload with a wallet address that is not empty
\* and with a timestamp, whichever way the start was called.
C28_BroadcastPayloadComplete ==
    (driverCall.fn = "startBroadcast" /\ IsSome(driverCall.payload)) =>
        /\ Val(driverCall.payload).walletAddress # ""
        /\ IsSome(Val(driverCall.payload).timestamp)
        /\ driverCall.data = StringifyPayload(Val(driverCall.payload))

\* the number of interval errors in the result of the last validate call
IntervalErrors ==
    Occurrences("Advertising interval must be between 20ms and 10240ms",
                validated.errors)

\* C29: interval range.  validate reports one interval error for a config
\* whose interval is present and outside 20..10240, zero and negative values
\* included, and none for a config without an interval or with one in range.
C29_IntervalRange ==
    validated.done =>
        LET interval == Val(validated.config).interval
        IN  IntervalErrors =
                IF IsSome(interval) /\ Val(interval) \notin 20..10240 THEN 1 ELSE 0

\* the intervals that validate lets through although they are out of range
C29_OnlyZeroSlipsThrough ==
    validated.done =>
        LET interval == Val(validated.config).interval
        IN  IntervalErrors =
                IF IsSome(interval) /\ Val(interval) \notin 20..10240
                   /\ Val(interval) # 0
                THEN 1 ELSE 0

\* the advertise modes in the order of their codes 0, 1, 2
AdvertiseModeNames == <<"LOW_POWER", "BALANCED", "LOW_LATENCY">>
AdvertiseModeCode(name) ==
    (CHOOSE i \in DOMAIN AdvertiseModeNames : AdvertiseModeNames[i] = name) - 1

\* the defaults of both builders, with `mode` for the advertise mode
BuilderDefaults(mode) ==
    LET config == Val(validated.config)
        common == /\ config.txPowerLevel = -12
                  /\ config.advertiseMode = mode
                  /\ config.interval = Some(100)
                  /\ config.connectable
                  /\ config.includeDeviceName
    IN  /\ validated.by = "createPaymentAdvertisingConfig" =>
              /\ common
              /\ config.timeout = Some(60000)
              /\ IsSome(config.payload) /\ Val(config.payload) \in Payloads
        /\ validated.by = "createAdvertisingConfig" =>
              /\ common
              /\ config.timeout = Some(0)
              /\ config.payload = None

\* C30: builder defaults.  The payment builder yields transmit power -12, the
\* advertise mode BALANCED in the encoding LOW_POWER, BALANCED, LOW_LATENCY =
\* 0, 1, 2, timeout 60000, interval 100, connectable, the device name
\* included and the payload attached; the basic builder yields the same with
\* timeout 0 and no payload.
C30_BuilderDefaults == BuilderDefaults(AdvertiseModeCode("BALANCED"))

\* what the builders yield: the same defaults with the code of LOW_POWER for
\* the advertise mode
C30_DefaultsWithLowPowerCode == BuilderDefaults(AdvertiseModeCode("LOW_POWER"))

\* the number of calls of startAdvertisingWithEnhancements (a caller's, or
\* a restart's) in the bag B that are waiting for the driver
StartsAwaiting(B) ==
    Copies({task \in DOMAIN B :
               task.op \in {"start", "restart"} /\ task.pc = "awaitDriver"}, B)

\* this step calls startBroadcast from startAdvertisingWithEnhancements
StartCallsDriver ==
    driverCall'.fn = "startBroadcast" /\ IsSome(driverCall'.config)

\* C31: message choice.  The message a start hands to startBroadcast is the
\* serialisation of the payload alone when its config has a payload, and of
\* the descriptor (name, service id, type "AirChainPay", version "1.0.0",
\* the time of the call) when it has none.  A start that passes the platform
\* and validation gates makes one driver call, in the step that suspends it
\* at the driver, and none when it resumes; a start that a gate refuses makes
\* none.
C31_MessageChoice ==
    [][/\ StartCallsDriver =>
             LET config == Val(driverCall'.config)
             IN  /\ driverCall'.data =
                       IF IsSome(config.payload)
                       THEN StringifyPayload(Val(config.payload))
                       ELSE StringifyDescriptor(config, now)
                 /\ platformOS = Android
                 /\ validateAdvertisingConfig(config).valid
                 /\ ret'.op = "none"
                 /\ StartsAwaiting(tasks') = StartsAwaiting(tasks) + 1
       /\ StartsAwaiting(tasks') > StartsAwaiting(tasks) => StartCallsDriver
       /\ ret'.op = "start" =>
             /\ driverCall'.fn = "none"
             /\ IF ret'.outcome = None
                THEN /\ StartsAwaiting(tasks') = StartsAwaiting(tasks)
                     /\ \/ platformOS # Android
                        \/ ~validateAdvertisingConfig(Val(ret'.config)).valid
                ELSE StartsAwaiting(tasks') = StartsAwaiting(tasks) - 1]_vars

\* a start with a payload has handed the payload alone to the driver, after
\* a start without one had handed over the descriptor and had returned
C31_Witness ==
    /\ driverCall.fn = "startBroadcast"
    /\ driverCall.config = Some(PaymentConfig)
    /\ driverCall.data = "{\"walletAddress\":\"0xA11ce\",\"timestamp\":1700,\"amount\":\"5\"}"
    /\ Has(metrics, driverCall.sid) /\ metrics[driverCall.sid].payloadTransmitted = Some(FALSE)

RestartsReachingStart(s) ==
    restartDriverCalls[s]
      + Copies({task \in DOMAIN tasks : /\ task.op = "restart" /\ task.sid = s
                                        /\ task.pc = "backoff"
                                        /\ task.cancel = "no"}, tasks)

\* a start that a caller issued, or the start or the whole of a restart, has
\* just returned, or a caller's start has just called the driver
StartOrRestartStep ==
    \/ ret'.op \in {"start", "restart"}
    \/ driverCall'.fn = "startBroadcast"

\* C33: sticky budget.  Of the restartAdvertisingIfNeeded(s) calls made since
\* the counter of s was last deleted by a stop, clearMetrics(s) or
\* clearAllMetrics, at most 3 go on to the start, whatever those starts and
\* the starts that callers issue return; no step of a start or of a restart
\* lowers the counter of any session.
C33_StickyBudget ==
    /\ [](\A s \in Sessions : RestartsReachingStart(s) <= maxRestartAttempts)
    /\ [][StartOrRestartStep =>
             \A s \in Sessions : Attempts(s)' >= Attempts(s)]_vars

\* a caller's start has just succeeded for a session that three restarts
\* have passed the test for, two of which have called the driver and one of
\* which had its start succeed, and the counter is still at 3
C33_Witness ==
    /\ ret.op = "start" /\ ~ret.viaRestart /\ ret.success
    /\ RestartsReachingStart(ret.sid) = maxRestartAttempts
    /\ restartDriverCalls[ret.sid] = 2
    /\ Attempts(ret.sid) = maxRestartAttempts


\* C34: restartCount bound.  When no two start or restart calls for the same
\* session overlap, every record has a restartCount of 0 or 1, and the
\* totalRestarts that getAdvertisingStatistics returns is at most the number
\* of sessions that have a record.
C34_RestartCountBound ==
    /\ \A s \in DOMAIN metrics : metrics[s].restartCount \in {0, 1}
    /\ AdvertisingStatistics(metrics).totalRestarts <= Cardinality(DOMAIN metrics)
    /\ ret.op = "statistics" =>
          Val(ret.value).totalRestarts <= Val(ret.value).totalSessions

\* a second restart of a session has just counted itself on the record
\* that its start wrote, after the first had counted itself on the record
\* before
C34_Witness ==
    /\ ret.op = "restart" /\ ret.success
    /\ Attempts(ret.sid) = 2
    /\ restartDriverCalls[ret.sid] = 2
    /\ Has(metrics, ret.sid) /\ metrics[ret.sid].restartCount = 1
    /\ metrics[ret.sid].startTime = 2 * ClockStep


\* C35: payload flag implies success.  Every record whose payloadTransmitted
\* is true has success true: no failed start marks a payload as transmitted.
C35_PayloadFlagImpliesSuccess ==
    \A s \in DOMAIN metrics :
        metrics[s].payloadTransmitted = Some(TRUE) => metrics[s].success

\* a payment start that was called at time 0 has just succeeded, later, and
\* its record says that the payload was transmitted
C35_Witness ==
    /\ ret.op = "startPayment" /\ ret.success
    /\ Has(metrics, ret.sid)
    /\ metrics[ret.sid].payloadTransmitted = Some(TRUE)
    /\ metrics[ret.sid].success
    /\ now > 0 /\ metrics[ret.sid].startTime = 0

\* C36: error count matches outcome.  Every record has success false exactly
\* when its errorCount is 1 and success true exactly when its errorCount is 0,
\* for every way a start can fail, a driver error with an empty message
\* included.
C36_ErrorCountMatchesOutcome ==
    \A s \in DOMAIN metrics :
        /\ ~metrics[s].success <=> metrics[s].errorCount = 1
        /\ metrics[s].success <=> metrics[s].errorCount = 0


\* C37: statistics partition.  What getAdvertisingStatistics returns has
\* totalSessions = successfulSessions + failedSessions = the number of
\* records in the store, and payloadTransmissions <= successfulSessions.
C37_StatisticsPartition ==
    ret.op = "statistics" =>
        LET statistics == Val(ret.value)
        IN  /\ statistics.totalSessions =
                  statistics.successfulSessions + statistics.failedSessions
            /\ statistics.totalSessions = Cardinality(DOMAIN metrics)
            /\ statistics.payloadTransmissions <= statistics.successfulSessions

\* the statistics of a store with two records: a start without a payload
\* that succeeded and was stopped, and a payment start that failed
C37_Witness ==
    /\ ret.op = "statistics"
    /\ Val(ret.value).totalSessions = 2
    /\ Val(ret.value).successfulSessions = 1
    /\ Val(ret.value).failedSessions = 1
    /\ Val(ret.value).payloadTransmissions = 0
    /\ \E s \in DOMAIN metrics : metrics[s].success /\ metrics[s].stopTime # None


\* a step in which handleSendPayment calls paymentService.sendPayment
SendPaymentCalled == sendPayments' > sendPayments

\* C38: single payment in flight.  At most one paymentService.sendPayment
\* call of the QR pay screen is unsettled at any time, isProcessing is set
\* for as long as one is, and a press of Send calls sendPayment only when
\* isProcessing is not set, no earlier call is unsettled and no alert of an
\* earlier call is waiting for its answer.
C38_SinglePaymentInFlight ==
    /\ [](sendPayments <= 1)
    /\ [](sendPayments > 0 => screen.isProcessing /\ alert = "none")
    /\ [](alert \in {"Payment Queued", "Payment Sent", "Payment Error"} =>
            screen.isProcessing)
    /\ [][SendPaymentCalled =>
             /\ ~screen.isProcessing /\ sendPayments = 0 /\ alert = "none"
             /\ screen'.isProcessing]_vars

\* a payment is on its way and the payment setup modal is still open, with a
\* token selected: isProcessing alone keeps the send button disabled
C38_Witness ==
    /\ sendPayments = 1 /\ screen.isProcessing
    /\ screen.showPaymentSetup /\ screen.selectedToken
    /\ screen.amount = "5" /\ alert = "none"


====
